---- MODULE Spec2Model ----
(***************************************************************************)
(* Model of the Intelbras Twibi router client:                             *)
(*   - TwibiConnection (api/connection.py): authentication state, the      *)
(*     login gate, get_data / send_command, invalidate_auth;               *)
(*   - TwibiController (api/controller.py): commands that degrade to a     *)
(*     boolean;                                                            *)
(*   - TwibiCoordinator (coordinator_v2.py): the poll cycle with retries,  *)
(*     backoff and restart detection.                                      *)
(* Coroutines are interleaved at their await points only (asyncio is       *)
(* cooperative): an action of the connection is the code between two       *)
(* suspensions; an attempt of the poll cycle is one action from its core   *)
(* fetch to its end.                                                       *)
(***************************************************************************)
EXTENDS Integers, Sequences, FiniteSets, TLC

(***************************************************************************)
(* Bounds                                                                  *)
(***************************************************************************)
NumCallers == 2

\* failed attempts in a row, over the cycles
MaxStreak == 10
MaxCalls == 3
MaxFailures == 3

Callers == 1..NumCallers

(***************************************************************************)
(* HTTP response bodies.  A body is a sequence of tokens; "ws" is          *)
(* whitespace, "{}" a JSON object, "{errcode:1}" a JSON object whose       *)
(* errcode is "1", "[]" a JSON value that is not an object, "junk" text    *)
(* that is neither JSON nor markup; the markup tokens come in two cases.   *)
(***************************************************************************)
Bodies ==
    { <<>>, <<"ws">>, <<"{}">>, <<"ws", "{}", "ws">>, <<"{errcode:1}">>,
      <<"[]">>, <<"junk">>, <<"{}", "junk">>,
      <<"<!DOCTYPE HTML", "junk">>, <<"ws", "<!doctype html">>,
      <<"<HTML", "junk">>, <<"<html">>, <<"junk", "<HTML">> }

\* what the transport hands back for one request
Responses ==
    [kind : {"body"}, body : Bodies]
      \cup { [kind |-> "client_error", body |-> <<>>],
             [kind |-> "timeout", body |-> <<>>] }

\* str.lower() on one token
LowerTok(tok) ==
    CASE tok = "<!DOCTYPE HTML" -> "<!doctype html"
      [] tok = "<HTML" -> "<html"
      [] OTHER -> tok

\* str.lower()
Lower(raw) == [i \in 1..Len(raw) |-> LowerTok(raw[i])]

\* str.lstrip(): from the first token that is not whitespace on
LStrip(raw) ==
    LET solid == {i \in 1..Len(raw) : raw[i] # "ws"} IN
    IF solid = {} THEN <<>>
    ELSE SubSeq(raw, CHOOSE i \in solid : \A j \in solid : i <= j, Len(raw))

\* str.rstrip(): up to the last token that is not whitespace
RStrip(raw) ==
    LET solid == {i \in 1..Len(raw) : raw[i] # "ws"} IN
    IF solid = {} THEN <<>>
    ELSE SubSeq(raw, 1, CHOOSE i \in solid : \A j \in solid : i >= j)

\* str.strip()
Strip(raw) == RStrip(LStrip(raw))

\* str.startswith(tok)
StartsWith(raw, tok) == raw # <<>> /\ raw[1] = tok

\* tok in str
Contains(raw, tok) == \E i \in 1..Len(raw) : raw[i] = tok

\* json.loads: "dict", "errdict" or "list" for a document, "error" for
\* JSONDecodeError (surrounding whitespace is accepted, anything else is not)
JsonLoads(raw) ==
    LET s == Strip(raw) IN
    IF Len(s) # 1 THEN "error"
    ELSE CASE s[1] = "{}" -> "dict"
           [] s[1] = "{errcode:1}" -> "errdict"
           [] s[1] = "[]" -> "list"
           [] OTHER -> "error"

\* the HTML sniffing of get_data, case-sensitive variant (a plausible slip)
IsLoginPageCaseSensitive(raw) ==
    StartsWith(Strip(raw), "<!doctype html") \/ Contains(raw, "<html")

\* the HTML sniffing of get_data
IsLoginPage(raw) ==
    StartsWith(Lower(Strip(raw)), "<!doctype html") \/ Contains(Lower(raw), "<html")

(***************************************************************************)
(* Outcomes of the three requests.  Each gives the value the coroutine     *)
(* ends with ("ok" or the exception class) and whether _authenticated is   *)
(* written, and to what.  aiohttp raises ClientError for a refused         *)
(* connection or a DNS failure and asyncio.TimeoutError when the total     *)
(* timeout of the request expires; TimeoutError is not a ClientError.      *)
(***************************************************************************)
Keep == "keep"

\* a _login that returns on a rejection instead of raising
LoginOutcomeRejectionReturns(resp) ==
    IF resp.kind = "client_error" THEN [result |-> "ConnectionError", auth |-> Keep]
    ELSE IF resp.kind = "timeout" THEN [result |-> "TimeoutError", auth |-> Keep]
    ELSE LET login_data == JsonLoads(resp.body) IN
         CASE login_data = "error" -> [result |-> "APIError", auth |-> Keep]
           [] login_data = "list" -> [result |-> "AttributeError", auth |-> Keep]
           [] login_data = "errdict" -> [result |-> "ok", auth |-> Keep]
           [] OTHER -> [result |-> "ok", auth |-> "true"]

\* _login, from the response on
LoginOutcome(resp) ==
    IF resp.kind = "client_error" THEN [result |-> "ConnectionError", auth |-> Keep]
    ELSE IF resp.kind = "timeout" THEN [result |-> "TimeoutError", auth |-> Keep]
    ELSE LET login_data == JsonLoads(resp.body) IN
         CASE login_data = "error" -> [result |-> "APIError", auth |-> Keep]
           [] login_data = "list" -> [result |-> "AttributeError", auth |-> Keep]
           [] login_data = "errdict" -> [result |-> "AuthenticationError", auth |-> Keep]
           [] OTHER -> [result |-> "ok", auth |-> "true"]

\* a get_data that takes a JSON answer for proof of a session
GetDataOutcomeRaisesFlag(resp) ==
    IF resp.kind = "client_error" THEN [result |-> "ConnectionError", auth |-> "false"]
    ELSE IF resp.kind = "timeout" THEN [result |-> "TimeoutError", auth |-> Keep]
    ELSE IF Strip(resp.body) = <<>> THEN [result |-> "APIError", auth |-> Keep]
    ELSE IF JsonLoads(resp.body) # "error" THEN [result |-> "ok", auth |-> "true"]
    ELSE IF IsLoginPage(resp.body) THEN [result |-> "AuthenticationError", auth |-> "false"]
    ELSE [result |-> "APIError", auth |-> Keep]

\* get_data, from the response on
GetDataOutcome(resp) ==
    IF resp.kind = "client_error" THEN [result |-> "ConnectionError", auth |-> "false"]
    ELSE IF resp.kind = "timeout" THEN [result |-> "TimeoutError", auth |-> Keep]
    ELSE IF Strip(resp.body) = <<>> THEN [result |-> "APIError", auth |-> Keep]
    ELSE IF JsonLoads(resp.body) # "error" THEN [result |-> "ok", auth |-> Keep]
    ELSE IF IsLoginPage(resp.body) THEN [result |-> "AuthenticationError", auth |-> "false"]
    ELSE [result |-> "APIError", auth |-> Keep]

\* send_command, from the response on
SendCommandOutcome(resp) ==
    IF resp.kind = "client_error" THEN [result |-> "ConnectionError", auth |-> "false"]
    ELSE IF resp.kind = "timeout" THEN [result |-> "TimeoutError", auth |-> Keep]
    ELSE IF JsonLoads(resp.body) = "error" THEN [result |-> "APIError", auth |-> Keep]
    ELSE [result |-> "ok", auth |-> Keep]

\* the flag after an outcome
ApplyAuth(auth, outcome) ==
    CASE outcome.auth = "true" -> TRUE
      [] outcome.auth = "false" -> FALSE
      [] OTHER -> auth

(***************************************************************************)
(* TwibiController: every command wraps send_command in                    *)
(* try / except Exception / return False, and returns True otherwise.      *)
(***************************************************************************)
ControllerOps ==
    {"set_led_status", "restart_router", "set_wifi_config",
     "set_guest_network", "set_upnp_status"}

ConnectionOps == {"ensure_authenticated", "get_data", "send_command"}

Ops == ConnectionOps \cup ControllerOps

Exceptions ==
    {"AuthenticationError", "ConnectionError", "APIError",
     "TimeoutError", "AttributeError"}

\* a controller whose handler catches the API errors only
ControllerReturnApiErrorsOnly(result) ==
    IF result = "ok" THEN "True"
    ELSE IF result \in {"AuthenticationError", "ConnectionError", "APIError"} THEN "False"
    ELSE result

\* what a controller command returns for the way send_command ended
ControllerReturn(result) ==
    IF result = "ok" THEN "True" ELSE "False"

\* what the caller of operation o sees when the connection call ended with result
Surface(o, result) ==
    IF o \in ControllerOps THEN ControllerReturn(result) ELSE result

(***************************************************************************)
(* TwibiDataFetcher.get_all_data as the coordinator sees it: one get_data   *)
(* call, login included when the flag is not set, then _transform_data.    *)
(***************************************************************************)
\* one get_data call made alone: r1 answers the login (if one is needed), r2
\* the GET; gives the result, the flag afterwards and whether the JSON
\* document was an object
GetDataCall(auth, r1, r2) ==
    LET get(a) ==
            LET o == GetDataOutcome(r2) IN
            [result |-> o.result, auth |-> ApplyAuth(a, o),
             json |-> IF o.result # "ok" THEN "none"
                      ELSE IF JsonLoads(r2.body) = "list" THEN "list" ELSE "dict"]
    IN IF auth THEN get(auth)
       ELSE LET l == LoginOutcome(r1) IN
            IF l.result = "ok" THEN get(ApplyAuth(auth, l))
            ELSE [result |-> l.result, auth |-> ApplyAuth(auth, l), json |-> "none"]

FetchOutcomesAuthenticated ==
    {GetDataCall(TRUE, r1, r2) : r1 \in Responses, r2 \in Responses}

FetchOutcomesUnauthenticated ==
    {GetDataCall(FALSE, r1, r2) : r1 \in Responses, r2 \in Responses}

\* every way one get_data call can end, from the current flag
FetchOutcomes(auth) ==
    IF auth THEN FetchOutcomesAuthenticated ELSE FetchOutcomesUnauthenticated

\* get_all_data: _transform_data calls raw_data.items(), which a JSON
\* document that is not an object does not have
GetModulesResult(o) ==
    IF o.result = "ok" /\ o.json = "list" THEN "AttributeError" ELSE o.result

(***************************************************************************)
(* Snapshots.  A snapshot is the dict returned by get_modules: its keys    *)
(* and the node list under node_info (empty when the key is missing).      *)
(* Uptime is the decimal string the firmware reports, a sequence of        *)
(* digits here.                                                           *)
(***************************************************************************)
CoreModules == {"node_info", "online_list", "wan_statistic"}

\* a loop that asks for the Wi-Fi settings first
ExtendedModulesWifiFirst ==
    <<"wifi", "wan_info", "lan_info", "guest_info", "upnp_info">>

ExtendedModules == <<"wan_info", "lan_info", "wifi", "guest_info", "upnp_info">>

ExtendedSet == {ExtendedModules[i] : i \in 1..Len(ExtendedModules)}

Node(sn, uptime) == [sn |-> sn, Uptime |-> uptime]

NodeLists ==
    { <<Node("S1", <<5, 0, 0, 0>>)>>,
      <<Node("S1", <<3, 0>>)>>,
      <<Node("S1", <<4, 9, 4, 0>>)>>,
      <<Node("S1", <<5, 0, 0, 0>>), Node("S2", <<5, 0, 0, 0>>)>>,
      <<Node("S1", <<5, 0, 0, 0>>), Node("S2", <<3, 0>>)>> }

\* what the router can answer to the core fetch, as transformed data
ValidCoreData == [keys : {CoreModules}, node_info : NodeLists]

InvalidCoreData ==
    { [keys |-> CoreModules, node_info |-> <<>>],
      [keys |-> {"node_info", "online_list"},
       node_info |-> <<Node("S1", <<5, 0, 0, 0>>)>>],
      [keys |-> {"online_list", "wan_statistic"}, node_info |-> <<>>] }

CoreData == ValidCoreData \cup InvalidCoreData

\* a schema that takes an empty node list
MainSchemaAnyLength(d) ==
    CoreModules \subseteq d.keys

\* MAIN_SCHEMA: the three core modules are required, node_info has at
\* least one node; every extended module is optional
MainSchemaValid(d) ==
    /\ CoreModules \subseteq d.keys
    /\ Len(d.node_info) >= 1

\* a key the raw dictionary does not have
NoField == "<absent>"

\* the JSON values a module of the answer can carry
JsonShapes == {"dict", "list", "null", "str"}

\* the value of every extended module of a merged dict: its shape, or
\* NoField for a module the dict lacks
ExtendedValues == [ExtendedSet -> JsonShapes \cup {NoField}]

\* vol.Optional(module): vol.Any(...) of MAIN_SCHEMA
OptionalShapes(module) ==
    IF module = "wan_info" THEN {"list", "dict", "null"}
    ELSE {"dict", "null"}

\* MAIN_SCHEMA on the merged dict: the core part, and the value of every
\* extended module the dict has
MAIN_SCHEMA(d, fields) ==
    /\ MainSchemaValid(d)
    /\ \A module \in ExtendedSet :
           fields[module] # NoField =>
               fields[module] \in OptionalShapes(module)

\* int() on a decimal string
RECURSIVE ParseInt(_)
ParseInt(digits) ==
    IF digits = <<>> THEN 0
    ELSE 10 * ParseInt(SubSeq(digits, 1, Len(digits) - 1)) + digits[Len(digits)]

\* {node.get("sn"): node for node in nodes}: the last node of a serial wins
SerialsOf(nodes) == {nodes[i].sn : i \in 1..Len(nodes)}

NodeOf(nodes, sn) ==
    LET idx == {i \in 1..Len(nodes) : nodes[i].sn = sn}
    IN nodes[CHOOSE i \in idx : \A j \in idx : j <= i]

UptimeDropThreshold == 60

\* a comparison that also fires on a drop of exactly the threshold
UptimeRegressedAtThreshold(old_uptime, new_uptime) ==
    /\ old_uptime > 0
    /\ new_uptime < old_uptime
    /\ (old_uptime - new_uptime) >= UptimeDropThreshold

\* the comparison of one serial's uptimes
UptimeRegressed(old_uptime, new_uptime) ==
    /\ old_uptime > 0
    /\ new_uptime < old_uptime
    /\ (old_uptime - new_uptime) > UptimeDropThreshold

\* a detection that takes the first snapshot for a restart
DetectRouterRestartWithoutCache(cached, new_data) ==
    IF cached = <<>> THEN TRUE
    ELSE IF "node_info" \notin cached[1].keys
              \/ "node_info" \notin new_data.keys
    THEN FALSE
    ELSE LET old_nodes == cached[1].node_info
             new_nodes == new_data.node_info
         IN \E serial \in SerialsOf(new_nodes) :
                /\ serial \in SerialsOf(old_nodes)
                /\ UptimeRegressed(ParseInt(NodeOf(old_nodes, serial).Uptime),
                                   ParseInt(NodeOf(new_nodes, serial).Uptime))

\* _detect_router_restart: cached is self.data (<<>> for None)
DetectRouterRestart(cached, new_data) ==
    IF cached = <<>> \/ "node_info" \notin cached[1].keys
          \/ "node_info" \notin new_data.keys
    THEN FALSE
    ELSE LET old_nodes == cached[1].node_info
             new_nodes == new_data.node_info
         IN \E serial \in SerialsOf(new_nodes) :
                /\ serial \in SerialsOf(old_nodes)
                /\ UptimeRegressed(ParseInt(NodeOf(old_nodes, serial).Uptime),
                                   ParseInt(NodeOf(new_nodes, serial).Uptime))

(***************************************************************************)
(* Retry policy of _async_update_data                                      *)
(***************************************************************************)
max_restart_recovery_attempts == 10

RecentSuccessWindow == 600

RecentDataWindow == 600

FallbackWindow == 300

BackoffCap == 30

BackoffMaxExponent == 4

RecoveryExitThreshold == 3

NoTime == -1

\* constructor arguments: the defaults, and a setting with fewer retries and
\* a longer base delay
Configs ==
    { [max_retries |-> 3, base_retry_delay |-> 5],
      [max_retries |-> 2, base_retry_delay |-> 40] }

BudgetConfigs ==
    { [max_retries |-> 1, base_retry_delay |-> 5],
      [max_retries |-> 3, base_retry_delay |-> 5],
      [max_retries |-> max_restart_recovery_attempts + 2,
       base_retry_delay |-> 5] }

\* what an attempt can end with besides a validated dict
AttemptErrors == {"AuthenticationError", "ConnectionError", "Invalid"}

TimePoints == {0, 600}

\* the clock at the ends of the two windows for cached data
ClockPoints == {0, FallbackWindow, RecentDataWindow}

Min(a, b) == IF a <= b THEN a ELSE b

RECURSIVE Pow2(_)
Pow2(n) == IF n = 0 THEN 1 ELSE 2 * Pow2(n - 1)

\* which except clause of _async_update_data takes the error
Branch(err) ==
    CASE err = "AuthenticationError" -> "auth"
      [] err \in {"ConnectionError", "APIError"} -> "connection"
      [] OTHER -> "unexpected"

\* the count each except clause compares the attempt index with
RetryLimit(branch, budget, retries) ==
    IF branch = "connection" THEN budget ELSE retries

\* the delay before the next attempt
RetryDelay(branch, recovery, base, k) ==
    IF branch = "connection" /\ recovery
    THEN Min(BackoffCap, base * Pow2(Min(k, BackoffMaxExponent)))
    ELSE base * Pow2(k)

\* a handler that lets everything but the API errors through
ExtSwallowsApiErrorsOnly(err) ==
    err \in {"AuthenticationError", "ConnectionError", "APIError"}

\* the except clause around one extended fetch
ExtSwallows(err) == TRUE

\* one turn of the loop over the extended modules, from every state in
\* runs: the modules whose fetch failed so far, the flag, and the error that
\* left the loop, if the handler let one through
ExtTurn(runs, module) ==
    UNION { IF st.raised # "none" THEN {st}
            ELSE { LET res == GetModulesResult(o) IN
                   IF res = "ok" THEN [st EXCEPT !.auth = o.auth]
                   ELSE IF ExtSwallows(res)
                   THEN [st EXCEPT !.auth = o.auth, !.failed = @ \cup {module}]
                   ELSE [st EXCEPT !.auth = o.auth, !.raised = res]
                 : o \in FetchOutcomes(st.auth) }
          : st \in runs }

\* the loop over EXTENDED_MODULES, module by module
ExtLoop(auth) ==
    LET m == ExtendedModules
        r0 == {[failed |-> {}, auth |-> auth, raised |-> "none"]}
        r1 == ExtTurn(r0, m[1])
        r2 == ExtTurn(r1, m[2])
        r3 == ExtTurn(r2, m[3])
        r4 == ExtTurn(r3, m[4])
    IN ExtTurn(r4, m[5])

ExtRunsAuthenticated == ExtLoop(TRUE)

ExtRunsUnauthenticated == ExtLoop(FALSE)

\* every way the extended fetches of one attempt can go, from the current flag
ExtRuns(auth) ==
    IF auth THEN ExtRunsAuthenticated ELSE ExtRunsUnauthenticated

\* the runs in which the extended modules fail together or not at all
CoarseExtRunsAuthenticated ==
    {e \in ExtRunsAuthenticated : e.failed \in {{}, ExtendedSet}}

CoarseExtRunsUnauthenticated ==
    {e \in ExtRunsUnauthenticated : e.failed \in {{}, ExtendedSet}}

CoarseExtRuns(auth) ==
    IF auth THEN CoarseExtRunsAuthenticated ELSE CoarseExtRunsUnauthenticated

\* the core fetches that return
CoreOkAuthenticated ==
    {o \in FetchOutcomesAuthenticated : GetModulesResult(o) = "ok"}

CoreOkUnauthenticated ==
    {o \in FetchOutcomesUnauthenticated : GetModulesResult(o) = "ok"}

CoreOk(auth) == IF auth THEN CoreOkAuthenticated ELSE CoreOkUnauthenticated

\* the answer to the core fetch when the extended modules are looked at one
\* by one: a valid dict with one node
SingleNodeCoreData ==
    { [keys |-> CoreModules, node_info |-> <<Node("S1", <<3, 0>>)>>] }

(***************************************************************************)
(* MAC addresses and device records                                        *)
(***************************************************************************)
\* a string is the sequence of its characters, "ws" a whitespace character
LowerHex ==
    {"0", "1", "2", "3", "4", "5", "6", "7", "8", "9",
     "a", "b", "c", "d", "e", "f"}

\* the character unchanged: what lower() would be if it left the case alone
LowerCharKeepsCase(ch) == ch

\* str.lower() on one character
LowerChar(ch) ==
    CASE ch = "A" -> "a" [] ch = "B" -> "b" [] ch = "C" -> "c"
      [] ch = "D" -> "d" [] ch = "E" -> "e" [] ch = "F" -> "f"
      [] OTHER -> ch

\* str.upper() on one character
UpperChar(ch) ==
    CASE ch = "a" -> "A" [] ch = "b" -> "B" [] ch = "c" -> "C"
      [] ch = "d" -> "D" [] ch = "e" -> "E" [] ch = "f" -> "F"
      [] OTHER -> ch

\* str.lower() of a MAC address
MacLower(mac) == [i \in 1..Len(mac) |-> LowerChar(mac[i])]

\* str.replace(ch, "")
Remove(str, ch) == SelectSeq(str, LAMBDA c : c # ch)

\* str[i:j], counted from 0 and cut at the end of the string
Slice(str, i, j) == SubSeq(str, i + 1, Min(j, Len(str)))

\* utils.normalize_mac
normalize_mac(mac) ==
    LET bare == Strip(Remove(Remove(MacLower(mac), "-"), ":"))
        group(i) == Slice(bare, i, i + 2)
    IN  group(0) \o <<":">> \o group(2) \o <<":">> \o group(4) \o <<":">>
          \o group(6) \o <<":">> \o group(8) \o <<":">> \o group(10)

\* the addresses the spellings are drawn from, as twelve lowercase digits
Addresses ==
    { <<"a", "a", "b", "b", "c", "c", "d", "d", "e", "e", "f", "f">>,
      <<"0", "1", "2", "3", "4", "5", "6", "7", "8", "9", "a", "b">>,
      <<"1", "1", "2", "2", "3", "3", "4", "4", "5", "5", "6", "6">> }

Separators == {"-", ":", "none"}

\* the address with the digits at the positions of upper in capitals, the
\* groups of two joined by sep, and whitespace around it if padded
Spell(address, upper, sep, padded) ==
    LET cased == [i \in 1..Len(address) |->
                     IF i \in upper THEN UpperChar(address[i])
                     ELSE address[i]]
        joined == IF sep = "none" THEN cased
                  ELSE [i \in 1..(Len(cased) + Len(cased) \div 2 - 1) |->
                           IF i % 3 = 0 THEN sep ELSE cased[i - i \div 3]]
    IN  IF padded THEN <<"ws">> \o joined \o <<"ws">> ELSE joined

\* every mixed-case, hyphenated, colon-separated or unseparated spelling
MacSpellings(address) ==
    { Spell(address, upper, sep, padded) :
        upper \in SUBSET (1..Len(address)), sep \in Separators,
        padded \in BOOLEAN }

\* six lowercase groups of two hexadecimal digits joined by colons
Canonical(address) == Spell(address, {}, ":", FALSE)

\* the longest raw device list
MaxDevices == 2

\* nodes in one answer of the router
MaxNodes == 2

\* dev_mac as the firmware may spell it
DeviceMacs ==
    { Canonical(CHOOSE a \in Addresses : a[1] = "a"),
      Spell(CHOOSE a \in Addresses : a[1] = "a", 1..12, "-", FALSE),
      Canonical(CHOOSE a \in Addresses : a[1] = "1") }

\* one entry of the router's online_list; the other keys are copied in the
\* same way as dev_mac
RawDevices ==
    [dev_mac : DeviceMacs, wifi_mode : {"--", "2.4G", "5G", NoField}]

\* raw_data of a response: without an online_list, or with one
RawData ==
    {<<>>} \cup
    { <<l>> : l \in UNION {[1..n -> RawDevices] : n \in 0..MaxDevices} }

\* OnlineDevice.from_dict
from_dict(dev) ==
    [mac |-> dev.dev_mac,
     wifi_mode |-> IF dev.wifi_mode = NoField THEN "--" ELSE dev.wifi_mode]

\* OnlineDevice.to_dict
to_dict(device) ==
    [dev_mac |-> device.mac, wifi_mode |-> device.wifi_mode]

\* a filter that lets every device through
is_wiredNever(device) == FALSE

\* OnlineDevice.is_wired
is_wired(device) == device.wifi_mode = "--"

\* one entry of the router's node_info; the other keys are copied in the
\* same way as sn
RawNodes == [role : {"1", "0", NoField}, sn : {"A", "B"}]

\* a response without node_info, or with one of up to MaxNodes entries
NodesData ==
    {<<>>} \cup
    { <<l>> : l \in UNION {[1..n -> RawNodes] : n \in 0..MaxNodes} }

\* NodeInfo.from_dict
NodeInfo_from_dict(node) ==
    [role |-> IF node.role = NoField THEN "0" ELSE node.role,
     serial |-> node.sn]

\* get_node_info on the answer
NodeInfos(answer) ==
    IF answer = <<>> THEN <<>>
    ELSE [i \in 1..Len(answer[1]) |-> NodeInfo_from_dict(answer[1][i])]

\* next((node for node in nodes if node.role == "1"), None)
FirstPrimary(nodes) ==
    LET hits == SelectSeq(nodes, LAMBDA node : node.role = "1")
    IN  IF hits = <<>> THEN <<>> ELSE <<hits[1]>>

\* [node for node in nodes if node.role != "1"]
Secondaries(nodes) ==
    SelectSeq(nodes, LAMBDA node : node.role # "1")

\* the device list of get_online_devices and of _transform_data
FilteredDevices(devices_data, exclude) ==
    LET all == [i \in 1..Len(devices_data) |-> from_dict(devices_data[i])]
    IN  IF exclude THEN SelectSeq(all, LAMBDA device : ~is_wired(device))
        ELSE all

\* the keys of an answer: the three get_all_data transforms and two it
\* does not
TransformedKeys == {"node_info", "online_list", "wan_statistic"}

AnswerKeys == TransformedKeys \cup {"lan_info", "getversion"}

\* one entry of wan_statistic
RawStats == [id : {"1"}, up_speed : {"5", NoField}]

\* WanStatistic.from_dict
WanStatistic_from_dict(entry) ==
    [id |-> entry.id,
     up_speed |-> IF entry.up_speed = NoField THEN "0" ELSE entry.up_speed]

\* WanStatistic.to_dict
WanStatistic_to_dict(statistic) ==
    [id |-> statistic.id, up_speed |-> statistic.up_speed]

\* NodeInfo.to_dict
NodeInfo_to_dict(node) == [role |-> node.role, sn |-> node.serial]

\* a list of at most one entry
ShortLists(entries) == {<<>>} \cup {<<entry>> : entry \in entries}

\* a key the answer does not have, or its value
Optional(values) == {<<>>} \cup {<<value>> : value \in values}

\* the answers of the router: a dict is a record over AnswerKeys whose
\* field is <<>> for a key the dict lacks and <<value>> for one it has
RawAnswers ==
    [node_info : Optional(ShortLists(RawNodes)),
     online_list : Optional(ShortLists(RawDevices)),
     wan_statistic : Optional(ShortLists(RawStats)),
     lan_info : Optional({"192.168.5.1", "10.0.0.1"}),
     getversion : Optional({"v1", "v2"})]

EmptyAnswer == [k \in AnswerKeys |-> <<>>]

\* the keys of a dict
KeysOf(dict) == {k \in AnswerKeys : dict[k] # <<>>}

\* a loop that copies nothing
PassThroughNothing(raw_answer, k) == <<>>

\* for key, value in raw_data.items(): transformed[key] = value
PassThrough(raw_answer, k) == raw_answer[k]

\* _transform_data
transform_data(raw_answer, exclude) ==
    LET known ==
            [node_info |->
                 IF raw_answer.node_info = <<>> THEN <<>>
                 ELSE LET nodes == raw_answer.node_info[1]
                      IN  << [i \in 1..Len(nodes) |->
                                 NodeInfo_to_dict(
                                     NodeInfo_from_dict(nodes[i]))] >>,
             online_list |->
                 IF raw_answer.online_list = <<>> THEN <<>>
                 ELSE LET devices ==
                              FilteredDevices(raw_answer.online_list[1],
                                              exclude)
                      IN  << [i \in 1..Len(devices) |->
                                 to_dict(devices[i])] >>,
             wan_statistic |->
                 IF raw_answer.wan_statistic = <<>> THEN <<>>
                 ELSE LET stats == raw_answer.wan_statistic[1]
                      IN  << [i \in 1..Len(stats) |->
                                 WanStatistic_to_dict(
                                     WanStatistic_from_dict(stats[i]))] >>]
    IN  [k \in AnswerKeys |->
             IF k \in TransformedKeys /\ known[k] # <<>> THEN known[k]
             ELSE PassThrough(raw_answer, k)]

\* the addresses get_device_by_mac is asked for: as the router spells
\* them, and one no device has
LookupMacs ==
    DeviceMacs \cup {Canonical(CHOOSE a \in Addresses : a[1] = "0")}

\* next((dev for dev in devices if dev.mac == mac), None)
FirstWithMac(devices, mac) ==
    LET hits == SelectSeq(devices, LAMBDA device : device.mac = mac)
    IN  IF hits = <<>> THEN <<>> ELSE <<hits[1]>>

(***************************************************************************)
(* State of the connection and of its callers                              *)
(***************************************************************************)
VARIABLES
    authenticated,   \* TwibiConnection._authenticated
    lockOwner,       \* holder of _auth_lock, 0 when it is not locked
    waiters,         \* FIFO of the callers suspended in _auth_lock.acquire()
    pc,              \* where each caller is suspended
    op,              \* the operation each caller is running
    last,            \* the call that ended last: its operation, the request
                     \* it ended in (login or its own GET/POST), the kind of
                     \* response to that request, how the connection call
                     \* ended, what the caller got, and the flag at that moment
    callsStarted,    \* number of calls made so far
    callsDone,       \* number of calls that ended
    loginsSent,      \* login requests handed to the transport
    loginsOk,        \* logins that set _authenticated
    loginsFailed,    \* logins that raised
    batchIntact,     \* every call so far started before any login ended,
                     \* and nothing has reset the flag since
    \* TwibiCoordinator
    max_retries,               \* constructor argument
    base_retry_delay,          \* constructor argument
    consecutive_failures,      \* _consecutive_failures
    last_successful_update,    \* _last_successful_update, NoTime for None
    router_restart_detected,   \* _router_restart_detected
    restart_recovery_attempts, \* _restart_recovery_attempts
    data,                      \* DataUpdateCoordinator.data: <<>> or <<snapshot>>
    last_update_success,       \* DataUpdateCoordinator.last_update_success
    now,                       \* hass.loop.time()
    cpc,                       \* where _async_update_data is
    attempt,                   \* loop variable of the current cycle
    max_attempts,              \* attempt budget of the current cycle
    coreValid,                 \* the last attempt's core fetch succeeded and
                               \* validated
    extFailed,                 \* the extended modules it failed to fetch
    detected,                  \* it saw an uptime regression
    connDelay,                 \* last delay slept after a connection/API
                               \* failure in the current cycle, 0 if none
    cleanStreak,               \* consecutive cycles that started with the
                               \* recovery budget, succeeded at once, saw no
                               \* uptime regression and left the flag set
    \* TwibiDataFetcher
    exclude_wired,    \* constructor argument
    raw_data,         \* what connection.get_data returned: <<>> without an
                      \* online_list, <<list>> with one
    fetcher_call,     \* the method that was called, "none" before
    online_devices,   \* the records get_online_devices returned
    transformed,      \* online_list of get_all_data: <<>> or <<list>>
    lookup_mac,       \* the argument of get_device_by_mac, <<>> before it
    lookup_result,    \* what it returned: <<>> for None, or <<record>>
    nodes_data,       \* node_info of the router's answer: <<>> or <<list>>
    primary_node,     \* <<>> before get_primary_node, then <<its result>>
    secondary_nodes,  \* <<>> before get_secondary_nodes, then <<its result>>
    raw_modules,      \* the whole answer to get_all_data, key by key
    all_data,         \* <<>> before get_all_data, then <<its result>>
    \* normalize_mac
    mac_address,      \* the address, twelve lowercase digits
    mac_spelling,     \* the way the caller spells it
    mac_normalized,   \* the results of normalize_mac, applied once and then
                      \* to its own result
    \* history of invalidate_auth
    unrefreshed,      \* invalidate_auth was called and no login request has
                      \* been sent since
    staleCall,        \* the callers whose running call started in between
    \* one attempt of _async_update_data, call by call
    requests,         \* the API calls the current attempt has issued
    in_flight,        \* the API calls issued and not yet ended
    sleeping,         \* the cycle is in asyncio.sleep(delay) before a retry
    module_index,     \* position of the loop over the extended modules
    attempt_data,     \* the dict the attempt is building: <<>> or <<dict>>
    \* MAIN_SCHEMA on a merged dict
    schema_input,     \* the dict it was called with: <<>> or <<dict>>
    schema_result,    \* "none" before the call, then "valid" or "Invalid"
    \* the way the last cycle left _async_update_data
    exit_path         \* "none", "return", "raise" or "fallthrough"

connVars ==
    <<authenticated, lockOwner, waiters, pc, op, last, callsStarted,
      callsDone, loginsSent, loginsOk, loginsFailed, batchIntact>>

coordVars ==
    <<max_retries, base_retry_delay, consecutive_failures,
      last_successful_update, router_restart_detected,
      restart_recovery_attempts, data, last_update_success, now, cpc, attempt,
      max_attempts, connDelay, coreValid, extFailed, detected, cleanStreak>>

\* what the connection model leaves alone when the coordinator runs
callerVars ==
    <<lockOwner, waiters, pc, op, last, callsStarted, callsDone, loginsSent,
      loginsOk, loginsFailed, batchIntact>>

fetcherVars ==
    <<exclude_wired, raw_data, fetcher_call, online_devices, transformed,
      lookup_mac, lookup_result, nodes_data, primary_node, secondary_nodes,
      raw_modules, all_data>>

macVars == <<mac_address, mac_spelling, mac_normalized>>

trackVars == <<unrefreshed, staleCall>>

seqVars == <<requests, in_flight, sleeping, module_index, attempt_data>>

\* what the connection and the coordinator leave alone
schemaVars == <<schema_input, schema_result>>

exitVars == <<exit_path>>

pureVars == <<fetcherVars, macVars, trackVars, seqVars, schemaVars, exitVars>>

vars == <<connVars, coordVars, pureVars>>

\* an HTML document: the body begins, whatever the case, with a doctype or
\* an html tag
HtmlDocument(raw) ==
    raw # <<>> /\ LowerTok(raw[1]) \in {"<!doctype html", "<html"}

\* the kind of a response, as far as the caller's contract goes
RespKind(r) ==
    IF r.kind = "body"
    THEN (IF HtmlDocument(r.body) THEN "html" ELSE "body")
    ELSE r.kind

NoCall ==
    [op |-> "none", stage |-> "none", resp |-> "none", raw |-> "none",
     result |-> "none", auth |-> FALSE]

TypeOK ==
    /\ authenticated \in BOOLEAN
    /\ lockOwner \in 0..NumCallers
    /\ pc \in [Callers -> {"idle", "lock_wait", "login_wait", "req_wait"}]
    /\ op \in [Callers -> Ops \cup {"none"}]
    /\ last.op \in Ops \cup {"none"}
    /\ last.stage \in {"none", "gate", "login", "request"}
    /\ last.resp \in {"none", "html", "body", "client_error", "timeout",
                      "cancelled"}
    /\ last.raw \in Exceptions \cup {"ok", "none", "CancelledError"}
    /\ last.result \in Exceptions \cup {"ok", "True", "False", "none",
                                       "CancelledError"}
    /\ callsDone <= callsStarted /\ callsStarted <= MaxCalls
    /\ loginsOk + loginsFailed <= loginsSent /\ loginsSent <= callsStarted

InitConn ==
    /\ authenticated = FALSE
    /\ lockOwner = 0
    /\ waiters = <<>>
    /\ pc = [p \in Callers |-> "idle"]
    /\ op = [p \in Callers |-> "none"]
    /\ last = NoCall
    /\ callsStarted = 0
    /\ callsDone = 0
    /\ loginsSent = 0
    /\ loginsOk = 0
    /\ loginsFailed = 0
    /\ batchIntact = TRUE
    /\ unrefreshed = FALSE
    /\ staleCall = {}

\* TwibiCoordinator.__init__, but for the arguments
InitCoordState ==
    /\ consecutive_failures = 0
    /\ last_successful_update = NoTime
    /\ router_restart_detected = FALSE
    /\ restart_recovery_attempts = 0
    /\ data = <<>>
    /\ last_update_success = TRUE
    /\ now = 0
    /\ cpc = "idle"
    /\ attempt = 0
    /\ max_attempts = 0
    /\ coreValid = FALSE
    /\ extFailed = {}
    /\ detected = FALSE
    /\ connDelay = 0
    /\ cleanStreak = 0
    /\ requests = <<>>
    /\ in_flight = 0
    /\ sleeping = FALSE
    /\ module_index = 0
    /\ attempt_data = <<>>
    /\ schema_input = <<>>
    /\ schema_result = "none"
    /\ exit_path = "none"

\* TwibiCoordinator.__init__
InitCoord ==
    /\ \E c \in Configs :
          /\ max_retries = c.max_retries
          /\ base_retry_delay = c.base_retry_delay
    /\ InitCoordState

\* TwibiDataFetcher.__init__ with the default argument, nothing fetched
InitFetcher ==
    /\ exclude_wired = TRUE
    /\ raw_data = <<>>
    /\ fetcher_call = "none"
    /\ online_devices = <<>>
    /\ transformed = <<>>
    /\ lookup_mac = <<>>
    /\ lookup_result = <<>>
    /\ nodes_data = <<>>
    /\ primary_node = <<>>
    /\ secondary_nodes = <<>>
    /\ raw_modules = EmptyAnswer
    /\ all_data = <<>>

\* no address normalized
InitMac ==
    /\ mac_address = <<>>
    /\ mac_spelling = <<>>
    /\ mac_normalized = <<>>

\* a connection and a coordinator built with the default arguments
Init ==
    /\ InitConn
    /\ InitCoord
    /\ max_retries = 3
    /\ base_retry_delay = 5
    /\ InitFetcher
    /\ InitMac

\* a coordinator built with one retry, with the default, or with more
\* retries than the recovery budget
InitBudget ==
    /\ InitConn
    /\ \E c \in BudgetConfigs :
          /\ max_retries = c.max_retries
          /\ base_retry_delay = c.base_retry_delay
    /\ InitCoordState
    /\ InitFetcher
    /\ InitMac

\* a connection and a coordinator built with any of the settings
InitCycle == InitConn /\ InitCoord /\ InitFetcher /\ InitMac

\* a data fetcher built with either setting, about to transform any answer
InitDevices ==
    /\ InitConn
    /\ InitCoord
    /\ max_retries = 3
    /\ base_retry_delay = 5
    /\ exclude_wired \in BOOLEAN
    /\ raw_data \in RawData
    /\ fetcher_call = "none"
    /\ online_devices = <<>>
    /\ transformed = <<>>
    /\ lookup_mac = <<>>
    /\ lookup_result = <<>>
    /\ nodes_data = <<>>
    /\ primary_node = <<>>
    /\ secondary_nodes = <<>>
    /\ raw_modules = EmptyAnswer
    /\ all_data = <<>>
    /\ InitMac

\* any spelling of any address, about to be normalized
InitSpellings ==
    /\ InitConn
    /\ InitCoord
    /\ max_retries = 3
    /\ base_retry_delay = 5
    /\ InitFetcher
    /\ mac_address \in Addresses
    /\ mac_spelling \in MacSpellings(mac_address)
    /\ mac_normalized = <<>>

(***************************************************************************)
(* ensure_authenticated                                                    *)
(***************************************************************************)
\* an acquire() that never waits
LockAlwaysAvailable(owner, queue) == TRUE

\* asyncio.Lock.acquire() returns at once only when the lock is not held
\* and nobody is queued for it
LockAvailable(owner, queue) == owner = 0 /\ queue = <<>>

\* a gate without the second look
RecheckSkipped(auth) == FALSE

\* the second look at the flag, once the gate is held
RecheckAuthenticated(auth) == auth

\* the call of p ends: its caller gets the result
Finish(p, stage, r, res, auth) ==
    /\ pc' = [pc EXCEPT ![p] = "idle"]
    /\ op' = [op EXCEPT ![p] = "none"]
    /\ last' = [op |-> op[p], stage |-> stage, resp |-> RespKind(r),
                raw |-> res, result |-> Surface(op[p], res), auth |-> auth]
    /\ callsDone' = callsDone + 1

\* p is past ensure_authenticated, running operation o: ensure_authenticated
\* itself is finished, the others issue their request and wait for it
Proceed(p, o, auth) ==
    IF o = "ensure_authenticated"
    THEN /\ pc' = [pc EXCEPT ![p] = "idle"]
         /\ op' = [op EXCEPT ![p] = "none"]
         /\ last' = [op |-> o, stage |-> "none", resp |-> "none",
                     raw |-> "ok", result |-> "ok", auth |-> auth]
         /\ callsDone' = callsDone + 1
    ELSE /\ pc' = [pc EXCEPT ![p] = "req_wait"]
         /\ op' = [op EXCEPT ![p] = o]
         /\ UNCHANGED <<last, callsDone>>

\* a caller starts operation o and runs to its first suspension
Call(p, o) ==
    /\ pc[p] = "idle"
    /\ callsStarted < MaxCalls
    /\ callsStarted' = callsStarted + 1
    /\ batchIntact' = (batchIntact /\ loginsOk + loginsFailed = 0)
    /\ IF authenticated
       THEN /\ Proceed(p, o, authenticated)
            /\ UNCHANGED <<lockOwner, waiters, loginsSent>>
       ELSE IF LockAvailable(lockOwner, waiters)
       THEN /\ lockOwner' = p
            /\ loginsSent' = loginsSent + 1
            /\ pc' = [pc EXCEPT ![p] = "login_wait"]
            /\ op' = [op EXCEPT ![p] = o]
            /\ UNCHANGED <<waiters, last, callsDone>>
       ELSE /\ waiters' = Append(waiters, p)
            /\ pc' = [pc EXCEPT ![p] = "lock_wait"]
            /\ op' = [op EXCEPT ![p] = o]
            /\ UNCHANGED <<lockOwner, loginsSent, last, callsDone>>
    /\ UNCHANGED <<authenticated, loginsOk, loginsFailed>>

\* the first waiter gets the gate and looks at the flag again
LockGranted(p) ==
    /\ pc[p] = "lock_wait"
    /\ lockOwner = 0
    /\ waiters # <<>> /\ Head(waiters) = p
    /\ waiters' = Tail(waiters)
    /\ IF RecheckAuthenticated(authenticated)
       THEN /\ Proceed(p, op[p], authenticated)
            /\ UNCHANGED <<lockOwner, loginsSent>>
       ELSE /\ lockOwner' = p
            /\ loginsSent' = loginsSent + 1
            /\ pc' = [pc EXCEPT ![p] = "login_wait"]
            /\ UNCHANGED <<op, last, callsDone>>
    /\ UNCHANGED <<authenticated, callsStarted, loginsOk, loginsFailed,
                   batchIntact>>

\* the login request of p ends; the gate is released either way
LoginResponse(p, r) ==
    /\ pc[p] = "login_wait"
    /\ LET out == LoginOutcome(r)
           auth == ApplyAuth(authenticated, out)
       IN /\ authenticated' = auth
          /\ lockOwner' = 0
          /\ IF out.result = "ok"
             THEN /\ loginsOk' = loginsOk + 1
                  /\ Proceed(p, op[p], auth)
                  /\ UNCHANGED <<loginsFailed>>
             ELSE /\ loginsFailed' = loginsFailed + 1
                  /\ Finish(p, "login", r, out.result, auth)
                  /\ UNCHANGED <<loginsOk>>
    /\ UNCHANGED <<waiters, callsStarted, loginsSent, batchIntact>>

(***************************************************************************)
(* get_data / send_command, after ensure_authenticated                     *)
(***************************************************************************)
RequestOutcome(o, r) ==
    IF o = "get_data" THEN GetDataOutcome(r) ELSE SendCommandOutcome(r)

\* the GET or POST of p ends
Response(p, r) ==
    /\ pc[p] = "req_wait"
    /\ LET out == RequestOutcome(op[p], r)
           auth == ApplyAuth(authenticated, out)
       IN /\ authenticated' = auth
          /\ batchIntact' = (batchIntact /\ (authenticated => auth))
          /\ Finish(p, "request", r, out.result, auth)
    /\ UNCHANGED <<lockOwner, waiters, callsStarted, loginsSent, loginsOk,
                   loginsFailed>>

\* invalidate_auth, callable from any task at any time
InvalidateAuth ==
    /\ authenticated' = FALSE
    /\ batchIntact' = (batchIntact /\ ~authenticated)
    /\ UNCHANGED <<lockOwner, waiters, pc, op, last, callsStarted, callsDone,
                   loginsSent, loginsOk, loginsFailed>>

\* the task of p is cancelled while its GET or POST is in flight:
\* CancelledError is a BaseException, no handler of get_data, send_command
\* or the controller takes it
Cancel(p) ==
    /\ pc[p] = "req_wait"
    /\ pc' = [pc EXCEPT ![p] = "idle"]
    /\ op' = [op EXCEPT ![p] = "none"]
    /\ last' = [op |-> op[p], stage |-> "request", resp |-> "cancelled",
                raw |-> "CancelledError", result |-> "CancelledError",
                auth |-> authenticated]
    /\ callsDone' = callsDone + 1
    /\ UNCHANGED <<authenticated, lockOwner, waiters, callsStarted,
                   loginsSent, loginsOk, loginsFailed, batchIntact>>

\* a gate taken with acquire() and given back only on the way out of a
\* login that ran to its end
GateKeptOnCancel(p) == p

\* async with self._auth_lock: __aexit__ releases the lock whatever leaves
\* the block, CancelledError included
GateAfterCancel(p) == 0

\* the task of p is cancelled while its login is in flight
CancelLogin(p) ==
    /\ pc[p] = "login_wait"
    /\ lockOwner' = GateAfterCancel(p)
    /\ pc' = [pc EXCEPT ![p] = "idle"]
    /\ op' = [op EXCEPT ![p] = "none"]
    /\ last' = [op |-> op[p], stage |-> "login", resp |-> "cancelled",
                raw |-> "CancelledError", result |-> "CancelledError",
                auth |-> authenticated]
    /\ callsDone' = callsDone + 1
    /\ UNCHANGED <<authenticated, waiters, callsStarted, loginsSent, loginsOk,
                   loginsFailed, batchIntact>>

\* the task of p is cancelled while it waits for the gate: acquire() takes
\* it out of the queue
CancelWaiter(p) ==
    /\ pc[p] = "lock_wait"
    /\ waiters' = SelectSeq(waiters, LAMBDA q : q # p)
    /\ pc' = [pc EXCEPT ![p] = "idle"]
    /\ op' = [op EXCEPT ![p] = "none"]
    /\ last' = [op |-> op[p], stage |-> "gate", resp |-> "cancelled",
                raw |-> "CancelledError", result |-> "CancelledError",
                auth |-> authenticated]
    /\ callsDone' = callsDone + 1
    /\ UNCHANGED <<authenticated, lockOwner, callsStarted, loginsSent,
                   loginsOk, loginsFailed, batchIntact>>

\* the steps of the calls
NextCalls ==
    \/ \E p \in Callers, o \in Ops : Call(p, o)
    \/ \E p \in Callers : LockGranted(p)
    \/ \E p \in Callers, r \in Responses : LoginResponse(p, r)
    \/ \E p \in Callers, r \in Responses : Response(p, r)

NextConn ==
    \/ NextCalls
    \/ InvalidateAuth

\* a step of a call, with the history of invalidate_auth kept: a login
\* request sent ends it, a call that starts before that is marked
CallsTracked ==
    /\ NextCalls
    /\ IF loginsSent' # loginsSent
       THEN /\ unrefreshed' = FALSE
            /\ staleCall' = {}
       ELSE /\ unrefreshed' = unrefreshed
            /\ staleCall' =
                   {p \in Callers :
                       /\ pc'[p] # "idle"
                       /\ \/ p \in staleCall
                          \/ unrefreshed /\ pc[p] = "idle"}

\* invalidate_auth, with its history kept
InvalidateTracked ==
    /\ InvalidateAuth
    /\ unrefreshed' = TRUE
    /\ staleCall' = {}

(***************************************************************************)
(* TwibiCoordinator._async_update_data                                     *)
(***************************************************************************)
\* a success path that leaves the failure counter alone
ConsecutiveFailuresKept(failures) == failures

\* _consecutive_failures after a success
ConsecutiveFailuresReset(failures) == 0

\* a failure path that drops the cache
CacheDroppedOnFailure(cached) == <<>>

\* DataUpdateCoordinator.data after a failed attempt: nothing assigns it
CacheAfterFailure(cached) == cached

\* the cycle is over: the framework records the result
EndCycle(ok) ==
    /\ cpc' = "idle"
    /\ last_update_success' = ok

\* a heuristic that every except clause applies
ProactiveRestartAnyBranch(branch, last_success, current_time, flagged) ==
    /\ last_success # NoTime
    /\ (current_time - last_success) < RecentSuccessWindow
    /\ ~flagged

\* the connection/API clause takes a failure shortly after a success for a
\* restart of the router, unless the flag is already set
ProactiveRestart(branch, last_success, current_time, flagged) ==
    /\ branch = "connection"
    /\ last_success # NoTime
    /\ (current_time - last_success) < RecentSuccessWindow
    /\ ~flagged

\* a terminal failure that leaves recovery mode
FlagClearedOnTerminalFailure(flag) == FALSE

\* _router_restart_detected when the cycle raises UpdateFailed: it is left
\* as it is for the next cycle
FlagAfterTerminalFailure(flag) == flag

\* a counter of failed cycles: only the first attempt of a cycle counts
FailuresPerCycle(failures, tried) ==
    IF tried = 0 THEN failures + 1 ELSE failures

\* _consecutive_failures += 1, the first statement of every except clause,
\* whatever the number of attempts already tried
FailuresAfterAttempt(failures, tried) == failures + 1

\* one of the except clauses of the attempt loop takes err; coreOk tells
\* whether the core fetch had succeeded and validated, authAfter is the flag
\* the failed call left behind
FailAttempt(err, coreOk, failed, authAfter) ==
    LET branch == Branch(err)
        proactive ==
            ProactiveRestart(branch, last_successful_update, now,
                             router_restart_detected)
        flag == router_restart_detected \/ proactive
        counted == IF proactive THEN 0 ELSE restart_recovery_attempts
        retry == attempt < RetryLimit(branch, max_attempts, max_retries) - 1
        again == retry /\ attempt + 1 < max_attempts
        delay == RetryDelay(branch, flag, base_retry_delay, attempt)
    IN /\ consecutive_failures' =
              FailuresAfterAttempt(consecutive_failures, attempt)
       /\ authenticated' = (IF branch = "auth" THEN FALSE ELSE authAfter)
       /\ router_restart_detected' =
              (IF again THEN flag ELSE FlagAfterTerminalFailure(flag))
       /\ restart_recovery_attempts' =
              (IF branch = "connection" /\ flag /\ retry
               THEN counted + 1 ELSE counted)
       /\ IF again
          THEN /\ cpc' = "attempt"
               /\ attempt' = attempt + 1
               /\ connDelay' = (IF branch = "connection" THEN delay ELSE connDelay)
               /\ UNCHANGED last_update_success
          ELSE /\ EndCycle(FALSE)
               /\ UNCHANGED <<attempt, connDelay>>
       /\ coreValid' = coreOk
       /\ extFailed' = failed
       /\ detected' = FALSE
       /\ cleanStreak' = 0
       /\ data' = CacheAfterFailure(data)
       /\ UNCHANGED <<max_retries, base_retry_delay, last_successful_update,
                      now, max_attempts>>

\* validation passed: restart detection, bookkeeping, return
Succeed(validated_data, failed, authAfter) ==
    LET restarted == DetectRouterRestart(data, validated_data)
        flag == router_restart_detected \/ restarted
        counted == IF restarted THEN 0 ELSE restart_recovery_attempts
        completed == flag /\ counted > RecoveryExitThreshold
    IN /\ consecutive_failures' = ConsecutiveFailuresReset(consecutive_failures)
       /\ last_successful_update' = now
       /\ router_restart_detected' = (flag /\ ~completed)
       /\ restart_recovery_attempts' = (IF completed THEN 0 ELSE counted)
       /\ data' = <<validated_data>>
       /\ EndCycle(TRUE)
       /\ authenticated' = authAfter
       /\ coreValid' = TRUE
       /\ extFailed' = failed
       /\ detected' = restarted
       /\ cleanStreak' =
              (IF max_attempts = max_restart_recovery_attempts
                    /\ flag /\ ~completed /\ ~restarted /\ attempt = 0
               THEN Min(cleanStreak + 1, RecoveryExitThreshold + 1) ELSE 0)
       /\ UNCHANGED <<max_retries, base_retry_delay, now, attempt,
                      max_attempts, connDelay>>

\* the scheduler calls _async_update_data: the budget is fixed
StartCycle ==
    /\ cpc = "idle"
    /\ cpc' = "attempt"
    /\ attempt' = 0
    /\ max_attempts' = (IF router_restart_detected
                        THEN max_restart_recovery_attempts ELSE max_retries)
    /\ connDelay' = 0
    /\ coreValid' = FALSE
    /\ extFailed' = {}
    /\ detected' = FALSE
    /\ UNCHANGED <<max_retries, base_retry_delay, consecutive_failures,
                   last_successful_update, router_restart_detected,
                   restart_recovery_attempts, data, last_update_success, now,
                   cleanStreak>>
    /\ UNCHANGED <<connVars, pureVars>>

\* api.health_check(), made when there were failures: node_info alone
HealthCheck(o, hasNodes) ==
    /\ cpc = "attempt"
    /\ consecutive_failures > 0
    /\ IF o.result = "ok" /\ o.json = "dict" /\ hasNodes
       THEN /\ cpc' = "core"
            /\ authenticated' = o.auth
            /\ UNCHANGED <<max_retries, base_retry_delay, consecutive_failures,
                           last_successful_update, router_restart_detected,
                           restart_recovery_attempts, data,
                           last_update_success, now, attempt, max_attempts,
                           connDelay, coreValid, extFailed, detected,
                           cleanStreak>>
       ELSE /\ consecutive_failures < MaxFailures
            /\ FailAttempt("ConnectionError", FALSE, {}, o.auth)
    /\ UNCHANGED <<callerVars, pureVars>>

\* an attempt that fetches whether or not a failure is pending
FetchEnabledWithoutProbe ==
    cpc \in {"core", "attempt"}

\* the attempt may fetch: either no failure is pending or the health check
\* passed
FetchEnabled ==
    \/ cpc = "core"
    \/ cpc = "attempt" /\ consecutive_failures = 0

\* api.get_modules(["node_info", "online_list", "wan_statistic"]) raises
CoreFetchFailed(o) ==
    /\ FetchEnabled
    /\ GetModulesResult(o) # "ok"
    /\ consecutive_failures < MaxFailures
    /\ FailAttempt(GetModulesResult(o), FALSE, {}, o.auth)
    /\ UNCHANGED <<callerVars, pureVars>>

\* the core fetch returns d; then api.get_modules([module]) for each
\* extended module in turn, the failures swallowed; then the merged dict is
\* validated and the attempt ends.  An extended fetch that returns brings
\* its module, in a shape MAIN_SCHEMA accepts, as the firmware does.
Fetch(o, d, e) ==
    /\ FetchEnabled
    /\ GetModulesResult(o) = "ok"
    /\ MainSchemaValid(d) \/ consecutive_failures < MaxFailures
    /\ LET merged == [d EXCEPT !.keys = @ \cup (ExtendedSet \ e.failed)] IN
       IF e.raised # "none"
       THEN FailAttempt(e.raised, MainSchemaValid(d), e.failed, e.auth)
       ELSE IF MainSchemaValid(merged)
       THEN Succeed(merged, e.failed, e.auth)
       ELSE FailAttempt("Invalid", FALSE, e.failed, e.auth)
    /\ UNCHANGED <<callerVars, pureVars>>

\* async_force_restart_recovery
ForceRestartRecovery ==
    /\ router_restart_detected' = TRUE
    /\ restart_recovery_attempts' = 0
    /\ consecutive_failures' = 0
    /\ cleanStreak' = 0
    /\ UNCHANGED <<max_retries, base_retry_delay, last_successful_update, data,
                   last_update_success, now, cpc, attempt, max_attempts,
                   connDelay, coreValid, extFailed, detected>>
    /\ UNCHANGED <<connVars, pureVars>>

\* time passes between two cycles
Tick ==
    /\ cpc = "idle"
    /\ \E t \in TimePoints : t > now /\ now' = t
    /\ UNCHANGED <<max_retries, base_retry_delay, consecutive_failures,
                   last_successful_update, router_restart_detected,
                   restart_recovery_attempts, data, last_update_success, cpc,
                   attempt, max_attempts, connDelay, coreValid, extFailed,
                   detected, cleanStreak>>
    /\ UNCHANGED <<connVars, pureVars>>

NextCoord ==
    \/ StartCycle
    \/ \E o \in FetchOutcomes(authenticated), h \in BOOLEAN : HealthCheck(o, h)
    \/ \E o \in FetchOutcomes(authenticated) : CoreFetchFailed(o)
    \/ \E o \in CoreOk(authenticated), d \in CoreData :
           \E e \in CoarseExtRuns(o.auth) : Fetch(o, d, e)
    \/ ForceRestartRecovery
    \/ Tick

NextExt ==
    \/ StartCycle
    \/ \E o \in FetchOutcomes(authenticated), h \in BOOLEAN : HealthCheck(o, h)
    \/ \E o \in FetchOutcomes(authenticated) : CoreFetchFailed(o)
    \/ \E o \in CoreOk(authenticated), d \in SingleNodeCoreData :
           \E e \in ExtRuns(o.auth) : Fetch(o, d, e)

Next == NextConn /\ UNCHANGED <<coordVars, pureVars>>

\* the connection and its concurrent callers
Spec == Init /\ [][Next]_vars

NextCancel ==
    /\ NextConn \/ \E p \in Callers : Cancel(p)
    /\ UNCHANGED <<coordVars, pureVars>>

NextInvalidate ==
    /\ CallsTracked \/ InvalidateTracked
    /\ UNCHANGED <<coordVars, fetcherVars, macVars, seqVars, schemaVars, exitVars>>

\* the connection and its concurrent callers, with the history of
\* invalidate_auth
SpecInvalidate == Init /\ [][NextInvalidate]_vars

\* the connection and its concurrent callers, whose tasks may be cancelled
\* while a request is in flight
SpecCancel == Init /\ [][NextCancel]_vars

\* the ways into ensure_authenticated: called directly, and from a request
GateOps == {"ensure_authenticated", "get_data"}

\* the calls, with cancellation at every await
NextGate ==
    /\ \/ \E p \in Callers, o \in GateOps : Call(p, o)
       \/ \E p \in Callers : LockGranted(p)
       \/ \E p \in Callers, r \in Responses : LoginResponse(p, r)
       \/ \E p \in Callers, r \in Responses : Response(p, r)
       \/ \E p \in Callers : Cancel(p)
       \/ \E p \in Callers : CancelLogin(p)
       \/ \E p \in Callers : CancelWaiter(p)
    /\ UNCHANGED <<coordVars, pureVars>>

\* the event loop runs a task that can run, and every request the
\* transport has taken is answered (or times out)
FairGate ==
    /\ WF_vars(\E p \in Callers : LockGranted(p) /\ UNCHANGED <<coordVars, pureVars>>)
    /\ WF_vars(\E p \in Callers, r \in Responses :
                  LoginResponse(p, r) /\ UNCHANGED <<coordVars, pureVars>>)
    /\ WF_vars(\E p \in Callers, r \in Responses :
                  Response(p, r) /\ UNCHANGED <<coordVars, pureVars>>)

\* the connection and its callers, cancelled at any await, under a fair
\* event loop and a transport that answers
SpecGate == Init /\ [][NextGate]_vars /\ FairGate

\* get_online_devices on the answer of the router
GetOnlineDevices ==
    /\ fetcher_call = "none"
    /\ fetcher_call' = "get_online_devices"
    /\ online_devices' =
           FilteredDevices(IF raw_data = <<>> THEN <<>> ELSE raw_data[1],
                           exclude_wired)
    /\ UNCHANGED <<exclude_wired, raw_data, transformed>>
    /\ UNCHANGED <<lookup_mac, lookup_result>>
    /\ UNCHANGED <<nodes_data, primary_node, secondary_nodes>>
    /\ UNCHANGED <<raw_modules, all_data>>
    /\ UNCHANGED <<connVars, coordVars, macVars, trackVars, seqVars, schemaVars, exitVars>>

\* get_all_data on the answer of the router: the online_list of
\* _transform_data
GetAllData ==
    /\ fetcher_call = "none"
    /\ fetcher_call' = "get_all_data"
    /\ transformed' =
           IF raw_data = <<>> THEN <<>>
           ELSE LET devices == FilteredDevices(raw_data[1], exclude_wired)
                IN  << [i \in 1..Len(devices) |-> to_dict(devices[i])] >>
    /\ UNCHANGED <<exclude_wired, raw_data, online_devices>>
    /\ UNCHANGED <<lookup_mac, lookup_result>>
    /\ UNCHANGED <<nodes_data, primary_node, secondary_nodes>>
    /\ UNCHANGED <<raw_modules, all_data>>
    /\ UNCHANGED <<connVars, coordVars, macVars, trackVars, seqVars, schemaVars, exitVars>>

\* get_device_by_mac(mac) on the answer of the router
GetDeviceByMac(mac) ==
    /\ fetcher_call = "none"
    /\ fetcher_call' = "get_device_by_mac"
    /\ online_devices' =
           FilteredDevices(IF raw_data = <<>> THEN <<>> ELSE raw_data[1],
                           exclude_wired)
    /\ lookup_mac' = <<mac>>
    /\ lookup_result' = FirstWithMac(online_devices', mac)
    /\ UNCHANGED <<exclude_wired, raw_data, transformed>>
    /\ UNCHANGED <<nodes_data, primary_node, secondary_nodes>>
    /\ UNCHANGED <<raw_modules, all_data>>
    /\ UNCHANGED <<connVars, coordVars, macVars, trackVars, seqVars, schemaVars, exitVars>>

NextFetcher ==
    \/ GetOnlineDevices
    \/ GetAllData
    \/ \E mac \in LookupMacs : GetDeviceByMac(mac)

\* the data fetcher on every answer
SpecFetcher == InitDevices /\ [][NextFetcher]_vars

\* get_primary_node on the answer of the router
GetPrimaryNode ==
    /\ primary_node = <<>>
    /\ primary_node' = <<FirstPrimary(NodeInfos(nodes_data))>>
    /\ UNCHANGED <<nodes_data, secondary_nodes>>
    /\ UNCHANGED <<exclude_wired, raw_data, fetcher_call, online_devices,
                   transformed, lookup_mac, lookup_result, raw_modules,
                   all_data>>
    /\ UNCHANGED <<connVars, coordVars, macVars, trackVars, seqVars, schemaVars, exitVars>>

\* get_secondary_nodes on the same answer
GetSecondaryNodes ==
    /\ secondary_nodes = <<>>
    /\ secondary_nodes' = <<Secondaries(NodeInfos(nodes_data))>>
    /\ UNCHANGED <<nodes_data, primary_node>>
    /\ UNCHANGED <<exclude_wired, raw_data, fetcher_call, online_devices,
                   transformed, lookup_mac, lookup_result, raw_modules,
                   all_data>>
    /\ UNCHANGED <<connVars, coordVars, macVars, trackVars, seqVars, schemaVars, exitVars>>

NextNodes ==
    \/ GetPrimaryNode
    \/ GetSecondaryNodes

\* a fetcher about to be asked for the nodes of an answer
InitNodes ==
    /\ InitConn
    /\ InitCoord
    /\ max_retries = 3
    /\ base_retry_delay = 5
    /\ exclude_wired = TRUE
    /\ raw_data = <<>>
    /\ fetcher_call = "none"
    /\ online_devices = <<>>
    /\ transformed = <<>>
    /\ lookup_mac = <<>>
    /\ lookup_result = <<>>
    /\ nodes_data \in NodesData
    /\ primary_node = <<>>
    /\ secondary_nodes = <<>>
    /\ raw_modules = EmptyAnswer
    /\ all_data = <<>>
    /\ InitMac

\* the node queries on every answer
SpecNodes == InitNodes /\ [][NextNodes]_vars

\* get_all_data on the whole answer of the router
GetAllModules ==
    /\ all_data = <<>>
    /\ all_data' = <<transform_data(raw_modules, exclude_wired)>>
    /\ UNCHANGED <<exclude_wired, raw_data, fetcher_call, online_devices,
                   transformed, lookup_mac, lookup_result, nodes_data,
                   primary_node, secondary_nodes, raw_modules>>
    /\ UNCHANGED <<connVars, coordVars, macVars, trackVars, seqVars, schemaVars, exitVars>>

NextModules == GetAllModules

\* a fetcher about to be asked for all the data of an answer
InitModules ==
    /\ InitConn
    /\ InitCoord
    /\ max_retries = 3
    /\ base_retry_delay = 5
    /\ exclude_wired \in BOOLEAN
    /\ raw_data = <<>>
    /\ fetcher_call = "none"
    /\ online_devices = <<>>
    /\ transformed = <<>>
    /\ lookup_mac = <<>>
    /\ lookup_result = <<>>
    /\ nodes_data = <<>>
    /\ primary_node = <<>>
    /\ secondary_nodes = <<>>
    /\ raw_modules \in RawAnswers
    /\ all_data = <<>>
    /\ InitMac

\* get_all_data on every answer
SpecModules == InitModules /\ [][NextModules]_vars

\* normalize_mac on the spelling, then on its own result
Normalize ==
    /\ Len(mac_normalized) < 2
    /\ mac_normalized' =
           Append(mac_normalized,
                  normalize_mac(IF mac_normalized = <<>> THEN mac_spelling
                                ELSE mac_normalized[Len(mac_normalized)]))
    /\ UNCHANGED <<mac_address, mac_spelling>>
    /\ UNCHANGED <<connVars, coordVars, fetcherVars, trackVars, seqVars, schemaVars, exitVars>>

NextMac == Normalize

\* normalize_mac on every spelling
SpecMac == InitSpellings /\ [][NextMac]_vars

(***************************************************************************)
(* One attempt, call by call: the health check, the core fetch, the        *)
(* extended fetches with their pauses, the validation, the sleep before    *)
(* the retry.                                                              *)
(***************************************************************************)
\* what the calls of an attempt leave alone until the attempt ends
attemptFrame ==
    <<max_retries, base_retry_delay, consecutive_failures,
      last_successful_update, router_restart_detected,
      restart_recovery_attempts, data, last_update_success, now, attempt,
      max_attempts, connDelay, coreValid, detected, cleanStreak>>

\* the attempt ends in one of the except clauses
AttemptFails(err, authAfter) ==
    /\ consecutive_failures < MaxFailures
    /\ FailAttempt(err, FALSE, extFailed, authAfter)
    /\ sleeping' = (cpc' = "attempt")
    /\ UNCHANGED <<requests, module_index, attempt_data>>

\* MAIN_SCHEMA(data) and what follows it
Validate(result, authAfter) ==
    IF MainSchemaValid(result)
    THEN /\ Succeed(result, extFailed, authAfter)
         /\ UNCHANGED <<requests, sleeping, module_index, attempt_data>>
    ELSE AttemptFails("Invalid", authAfter)

\* the loop over the extended modules goes on: the next module is asked
\* for, or the loop is over and the result is validated
NextModule(result, failed, authAfter, pending) ==
    IF module_index < Len(ExtendedModules)
    THEN /\ module_index' = module_index + 1
         /\ requests' = Append(requests, ExtendedModules[module_index + 1])
         /\ in_flight' = pending + 1
         /\ cpc' = "ext_wait"
         /\ attempt_data' = <<result>>
         /\ extFailed' = failed
         /\ authenticated' = authAfter
         /\ UNCHANGED sleeping
         /\ UNCHANGED attemptFrame
    ELSE /\ in_flight' = pending
         /\ extFailed' = failed
         /\ Validate(result, authAfter)

\* the attempt starts: the health check when failures are pending, the
\* core fetch otherwise
AttemptStarts ==
    /\ cpc = "attempt"
    /\ ~sleeping
    /\ IF consecutive_failures > 0
       THEN cpc' = "probe_wait" /\ requests' = <<"health_check">>
       ELSE cpc' = "core_wait" /\ requests' = <<"core">>
    /\ in_flight' = in_flight + 1
    /\ module_index' = 0
    /\ attempt_data' = <<>>
    /\ extFailed' = {}
    /\ UNCHANGED <<sleeping, authenticated>>
    /\ UNCHANGED attemptFrame
    /\ UNCHANGED <<callerVars, fetcherVars, macVars, trackVars, schemaVars, exitVars>>

\* api.health_check() returns
ProbeAnswer(o, hasNodes) ==
    /\ cpc = "probe_wait"
    /\ IF o.result = "ok" /\ o.json = "dict" /\ hasNodes
       THEN /\ cpc' = "core_wait"
            /\ requests' = Append(requests, "core")
            /\ in_flight' = (in_flight - 1) + 1
            /\ authenticated' = o.auth
            /\ UNCHANGED <<sleeping, module_index, attempt_data, extFailed>>
            /\ UNCHANGED attemptFrame
       ELSE /\ in_flight' = in_flight - 1
            /\ AttemptFails("ConnectionError", o.auth)
    /\ UNCHANGED <<callerVars, fetcherVars, macVars, trackVars, schemaVars, exitVars>>

\* the core fetch returns d or raises
CoreAnswer(o, d) ==
    /\ cpc = "core_wait"
    /\ IF GetModulesResult(o) # "ok"
       THEN /\ in_flight' = in_flight - 1
            /\ AttemptFails(GetModulesResult(o), o.auth)
       ELSE /\ MainSchemaValid(d) \/ consecutive_failures < MaxFailures
            /\ NextModule(d, {}, o.auth, in_flight - 1)
    /\ UNCHANGED <<callerVars, fetcherVars, macVars, trackVars, schemaVars, exitVars>>

\* the fetch of one extended module returns or raises
ExtAnswer(o) ==
    /\ cpc = "ext_wait"
    /\ LET module == ExtendedModules[module_index]
           res == GetModulesResult(o)
       IN IF res = "ok"
          THEN /\ cpc' = "ext_pause"
               /\ attempt_data' = <<[attempt_data[1] EXCEPT !.keys = @ \cup {module}]>>
               /\ in_flight' = in_flight - 1
               /\ authenticated' = o.auth
               /\ UNCHANGED <<requests, sleeping, module_index, extFailed>>
               /\ UNCHANGED attemptFrame
          ELSE IF ExtSwallows(res)
          THEN NextModule(attempt_data[1], extFailed \cup {module}, o.auth,
                          in_flight - 1)
          ELSE /\ in_flight' = in_flight - 1
               /\ AttemptFails(res, o.auth)
    /\ UNCHANGED <<callerVars, fetcherVars, macVars, trackVars, schemaVars, exitVars>>

\* asyncio.sleep(0.1) after an extended module is over
PauseEnds ==
    /\ cpc = "ext_pause"
    /\ NextModule(attempt_data[1], extFailed, authenticated, in_flight)
    /\ UNCHANGED <<callerVars, fetcherVars, macVars, trackVars, schemaVars, exitVars>>

\* asyncio.sleep(delay) before the retry is over
BackoffEnds ==
    /\ cpc = "attempt"
    /\ sleeping
    /\ sleeping' = FALSE
    /\ UNCHANGED <<requests, in_flight, module_index, attempt_data>>
    /\ UNCHANGED <<connVars, coordVars, fetcherVars, macVars, trackVars, schemaVars, exitVars>>

NextSeq ==
    \/ StartCycle
    \/ AttemptStarts
    \/ \E o \in FetchOutcomes(authenticated), h \in BOOLEAN : ProbeAnswer(o, h)
    \/ \E o \in FetchOutcomes(authenticated),
          d \in SingleNodeCoreData \cup InvalidCoreData : CoreAnswer(o, d)
    \/ \E o \in FetchOutcomes(authenticated) : ExtAnswer(o)
    \/ PauseEnds
    \/ BackoffEnds

\* the poll cycle call by call
SpecSeq == Init /\ [][NextSeq]_vars

\* the poll cycle call by call, with async_force_restart_recovery called at
\* any await
NextCount ==
    \/ NextSeq
    \/ ForceRestartRecovery

SpecCount == Init /\ [][NextCount]_vars

\* validated_data = MAIN_SCHEMA(data) on the dict merged from the core
\* fetch d and the extended fetches that returned
ValidateMerged(d, fields) ==
    /\ schema_result = "none"
    /\ schema_input' = <<[core |-> d, extended |-> fields]>>
    /\ schema_result' = IF MAIN_SCHEMA(d, fields) THEN "valid" ELSE "Invalid"
    /\ UNCHANGED <<connVars, coordVars, fetcherVars, macVars, trackVars,
                   seqVars, exitVars>>

NextSchema == \E d \in CoreData, fields \in ExtendedValues : ValidateMerged(d, fields)

\* the validation of every merged dict
SpecSchema == Init /\ [][NextSchema]_vars

(***************************************************************************)
(* The attempt loop by its outcomes: an attempt ends with a validated      *)
(* dict or in one of the except clauses, whatever request it was that      *)
(* failed.                                                                 *)
(***************************************************************************)
\* the except clause of err sleeps and says continue
RetryWanted(err) ==
    attempt < RetryLimit(Branch(err), max_attempts, max_retries) - 1

\* an attempt returns validated_data
AttemptReturns(d) ==
    /\ cpc = "attempt"
    /\ Succeed(d, {}, TRUE)
    /\ exit_path' = "return"
    /\ UNCHANGED <<callerVars, fetcherVars, macVars, trackVars, seqVars,
                   schemaVars>>

\* an attempt ends in an except clause: it continues with the next
\* attempt, raises UpdateFailed, or continues out of the loop into the
\* raise that follows it
AttemptRaises(err) ==
    /\ cpc = "attempt"
    /\ consecutive_failures < MaxStreak
    /\ FailAttempt(err, FALSE, {}, authenticated)
    /\ exit_path' = (IF cpc' = "attempt" THEN exit_path
                     ELSE IF RetryWanted(err) THEN "fallthrough"
                     ELSE "raise")
    /\ UNCHANGED <<callerVars, fetcherVars, macVars, trackVars, seqVars,
                   schemaVars>>

\* time passes between two cycles, up to one of the window ends
Elapse ==
    /\ cpc = "idle"
    /\ \E t \in ClockPoints : t > now /\ now' = t
    /\ UNCHANGED <<max_retries, base_retry_delay, consecutive_failures,
                   last_successful_update, router_restart_detected,
                   restart_recovery_attempts, data, last_update_success, cpc,
                   attempt, max_attempts, connDelay, coreValid, extFailed,
                   detected, cleanStreak>>
    /\ UNCHANGED <<connVars, pureVars>>

NextBudget ==
    \/ StartCycle
    \/ Elapse
    \/ ForceRestartRecovery
    \/ \E d \in SingleNodeCoreData : AttemptReturns(d)
    \/ \E err \in AttemptErrors : AttemptRaises(err)

\* the attempt loop under every setting
SpecBudget == InitBudget /\ [][NextBudget]_vars

\* the poll cycle of the coordinator, the only caller of its connection
SpecCoord == InitCycle /\ [][NextCoord]_vars

\* the poll cycle with the extended modules failing one by one, without
\* service calls
SpecExt == Init /\ [][NextExt]_vars

(***************************************************************************)
(* Properties of the connection                                            *)
(***************************************************************************)
LoginsInFlight == {p \in Callers : pc[p] = "login_wait"}

\* NumCallers calls were all started while the connection was still
\* unauthenticated and before any login had ended, all of them have ended,
\* and nothing else touched the flag
BatchDone ==
    /\ batchIntact
    /\ callsStarted = NumCallers
    /\ callsDone = NumCallers

\* C1 (as stated): N concurrent ensure_authenticated() calls against an
\* unauthenticated connection send exactly one login request, whatever the
\* outcome of the login.
C1_SingleLoginWhateverOutcome ==
    BatchDone => loginsSent = 1

\* C1 (amended): N concurrent ensure_authenticated() calls against an
\* unauthenticated connection send one login request per failed login plus
\* one for the login that succeeds, if any: exactly one when the first login
\* succeeds, and never a second one after a success.
C1_SingleLoginOnSuccess ==
    BatchDone =>
        /\ loginsOk <= 1
        /\ loginsSent = loginsFailed + loginsOk
        /\ (loginsFailed = 0 => loginsSent = 1)

C1_Witness ==
    BatchDone /\ loginsOk = 1 /\ loginsSent = 1

\* C2 (as stated): at most one login request is in flight, and a caller that
\* waited for the gate never starts a login of its own.
C2_WaitersNeverLogin ==
    /\ [](Cardinality(LoginsInFlight) <= 1)
    /\ [][\A p \in Callers : pc[p] = "lock_wait" => pc'[p] # "login_wait"]_vars

\* C2 (amended): at most one login request is in flight; a caller that needs
\* authentication while a login is in flight waits for the gate; when it gets
\* the gate it reuses the result if the flag is set by then, and starts its
\* own login if it is not (the login failed or the flag was reset meanwhile).
C2_LoginMutualExclusion ==
    /\ [](Cardinality(LoginsInFlight) <= 1)
    /\ [][\A p \in Callers :
            /\ (pc[p] = "idle" /\ pc'[p] # "idle" /\ LoginsInFlight # {})
                  => pc'[p] = "lock_wait"
            /\ (pc[p] = "lock_wait" /\ pc'[p] # "lock_wait")
                  => (pc'[p] = "login_wait" <=> ~authenticated)]_vars

C2_Witness ==
    /\ batchIntact /\ loginsSent = 1 /\ loginsOk = 1
    /\ callsStarted >= 2 /\ waiters = <<>>
    /\ \A p \in Callers : pc[p] = "req_wait"

\* C4: a get_data call whose GET is answered with an HTML document raises
\* AuthenticationError and leaves the flag false when it returns.
C4_SessionExpiryDetected ==
    (last.op = "get_data" /\ last.stage = "request" /\ last.resp = "html")
        => (last.result = "AuthenticationError" /\ last.auth = FALSE)

C4_Witness ==
    /\ last.op = "get_data" /\ last.stage = "request" /\ last.resp = "html"
    /\ last.result = "AuthenticationError"

\* C5 (as stated): a get_data or send_command call that fails at transport
\* level (refused, DNS, timeout) raises ConnectionError and leaves the flag
\* false.
C5_TransportFailureInvalidates ==
    (last.op \in {"get_data", "send_command"}
       /\ last.resp \in {"client_error", "timeout"})
        => (last.result = "ConnectionError" /\ last.auth = FALSE)

\* C10: a controller command returns a boolean, True exactly when
\* send_command completed without error; no exception reaches the caller.
C10_CommandsNeverRaise ==
    last.op \in ControllerOps =>
        /\ last.result \in {"True", "False"}
        /\ (last.result = "True" <=> last.raw = "ok")

C10_Witness ==
    /\ last.op \in ControllerOps /\ last.result = "False"
    /\ last.raw \in {"TimeoutError", "AttributeError"}

C6_FailureOnlyAfterBudget ==
    (cpc = "idle" /\ ~last_update_success) => attempt + 1 = max_attempts

\* the number of clean cycles after which recovery mode is to be left
SustainedSuccess == RecoveryExitThreshold + 1

\* C7 (as stated): with the restart flag set, a run of consecutive cycles
\* that succeed at once and see no uptime regression clears the flag within
\* a bounded number of cycles.
C7_RecoveryLeftOnSuccess ==
    router_restart_detected => cleanStreak < SustainedSuccess

\* the regression C8 speaks of: some serial of both snapshots had a positive
\* uptime that dropped by more than 60
ClaimRegression(cached, new_data) ==
    /\ cached # <<>>
    /\ \E sn \in SerialsOf(cached[1].node_info) \cap SerialsOf(new_data.node_info) :
          LET previous == ParseInt(NodeOf(cached[1].node_info, sn).Uptime)
              current == ParseInt(NodeOf(new_data.node_info, sn).Uptime)
          IN previous > 0 /\ previous - current > 60

C9_BackoffMonotoneAndCapped ==
    /\ [](connDelay <= BackoffCap)
    /\ [][cpc = "idle" \/ connDelay' >= connDelay]_vars

(***************************************************************************)
(* Properties of the login                                                 *)
(***************************************************************************)
\* C11 (as stated): a login answered with errcode "1" raises
\* AuthenticationError, one that fails at transport level raises
\* ConnectionError, one with a malformed response raises APIError, all three
\* leaving the flag false; a login with any other response sets the flag.
C11_LoginOutcome ==
    /\ [](last.stage = "login" =>
            /\ ~last.auth
            /\ last.raw \in {"AuthenticationError", "ConnectionError", "APIError"}
            /\ (last.resp \in {"client_error", "timeout"}
                  => last.raw = "ConnectionError"))
    /\ [][loginsOk' > loginsOk => authenticated']_vars

(***************************************************************************)
(* Properties of the cache                                                 *)
(***************************************************************************)
\* the step that ends a cycle with a snapshot
CycleSucceeds == cpc # "idle" /\ cpc' = "idle" /\ last_update_success'

\* the step that ends a cycle in update-failed
CycleFails == cpc # "idle" /\ cpc' = "idle" /\ ~last_update_success'

\* C12: the step that ends a cycle with a snapshot leaves the failure counter
\* at 0, the last-success timestamp at the current time and a validated
\* snapshot in the cache, however many attempts of the cycle failed before.
C12_SuccessBookkeeping ==
    [][CycleSucceeds =>
          /\ consecutive_failures' = 0
          /\ last_successful_update' = now
          /\ data' # <<>> /\ MainSchemaValid(data'[1])
          /\ data'[1].keys = CoreModules \cup (ExtendedSet \ extFailed')]_vars

C12_Witness ==
    /\ cpc = "idle" /\ last_update_success /\ coreValid
    /\ attempt = 2 /\ consecutive_failures = 0
    /\ last_successful_update = now /\ data # <<>>

\* C13: only the step that ends a cycle with a snapshot changes the cache
\* and the last-success timestamp; a failed attempt, and a cycle that ends in
\* update-failed, leave both as they were.
C13_CacheKeptOnFailure ==
    [][~CycleSucceeds => UNCHANGED <<data, last_successful_update>>]_vars

C13_Witness ==
    /\ cpc = "idle" /\ ~last_update_success
    /\ data # <<>> /\ last_successful_update # NoTime
    /\ now > last_successful_update

(***************************************************************************)
(* Properties of the requests                                              *)
(***************************************************************************)
\* the callers with an HTTP request in flight: a login, a GET or a POST
RequestsInFlight == {p \in Callers : pc[p] \in {"login_wait", "req_wait"}}

\* C14 (as stated): no two invocations (poll cycle, command, refresh) have
\* an HTTP request in flight on the connection at the same time.
C14_RequestsSerialized ==
    Cardinality(RequestsInFlight) <= 1

\* C15 (as stated): a get_data or send_command call cancelled while its
\* request is in flight leaves the flag false.
C15_CancellationInvalidates ==
    (last.resp = "cancelled" /\ last.op \in {"get_data", "send_command"})
        => ~last.auth

(***************************************************************************)
(* Derived connection status                                               *)
(***************************************************************************)
\* the connection_status property
connection_status ==
    IF last_update_success THEN "connected"
    ELSE IF consecutive_failures = 1 THEN "reconnecting"
    ELSE IF consecutive_failures < max_retries THEN "unstable"
    ELSE "disconnected"

\* C16 (as stated): the status is "connected" iff the last cycle succeeded,
\* otherwise "reconnecting" iff the counter is 1, "unstable" iff it is below
\* max_retries and not 1, "disconnected" otherwise; and it is "disconnected"
\* right after every cycle that ends in update-failed.
C16_StatusDerivation ==
    /\ [](/\ (connection_status = "connected") <=> last_update_success
          /\ ~last_update_success =>
                /\ (connection_status = "reconnecting")
                       <=> consecutive_failures = 1
                /\ (connection_status = "unstable")
                       <=> (consecutive_failures < max_retries
                            /\ consecutive_failures # 1)
                /\ (connection_status = "disconnected")
                       <=> (consecutive_failures >= max_retries
                            /\ consecutive_failures # 1))
    /\ [][CycleFails => connection_status' = "disconnected"]_vars

(***************************************************************************)
(* Properties of the device list and of the MAC addresses                  *)
(***************************************************************************)
\* the raw entries a fetcher set to exclude the wired devices keeps: those
\* whose band marker is not "--" (an entry without one counts as wired)
Wireless(devices_data) ==
    SelectSeq(devices_data,
              LAMBDA dev : dev.wifi_mode # "--" /\ dev.wifi_mode # NoField)

\* the raw entries the fetcher has to return
Expected ==
    LET devices_data == IF raw_data = <<>> THEN <<>> ELSE raw_data[1]
    IN  IF exclude_wired THEN Wireless(devices_data) ELSE devices_data

IsCanonicalMac(mac) ==
    /\ Len(mac) = 17
    /\ \A i \in 1..Len(mac) :
          IF i % 3 = 0 THEN mac[i] = ":" ELSE mac[i] \in LowerHex

\* C18: normalize_mac is idempotent, gives every spelling of an address the
\* same string, and that string is six lowercase groups of two hexadecimal
\* digits joined by colons.
C18_NormalizeCanonical ==
    /\ Len(mac_normalized) >= 1 =>
          /\ mac_normalized[1] = Canonical(mac_address)
          /\ IsCanonicalMac(mac_normalized[1])
    /\ Len(mac_normalized) = 2 => mac_normalized[2] = mac_normalized[1]

\* a padded, hyphenated spelling in capitals was normalized twice
C18_Witness ==
    /\ Len(mac_normalized) = 2
    /\ mac_spelling[1] = "ws" /\ mac_spelling[2] = "A" /\ mac_spelling[4] = "-"
    /\ mac_normalized[2] = Canonical(mac_address)

\* C19 (as stated): every record of get_online_devices and every online_list
\* entry of get_all_data carries its MAC in the canonical form.
C19_CanonicalKeys ==
    /\ fetcher_call = "get_online_devices" =>
          \A i \in 1..Len(online_devices) :
              IsCanonicalMac(online_devices[i].mac)
    /\ (fetcher_call = "get_all_data" /\ transformed # <<>>) =>
          \A i \in 1..Len(transformed[1]) :
              IsCanonicalMac(transformed[1][i].dev_mac)

(***************************************************************************)
(* Properties of the validation                                            *)
(***************************************************************************)
\* the step is an attempt whose extended fetches all returned or were
\* swallowed and whose merged result lacks a core module or has no node
InvalidAttempt ==
    \E o \in CoreOk(authenticated), d \in InvalidCoreData :
        \E e \in CoarseExtRuns(o.auth) : e.raised = "none" /\ Fetch(o, d, e)

\* C20: every cached snapshot has node_info with at least one node,
\* online_list and wan_statistic; an attempt whose merged result lacks one
\* of them or has no node does not succeed, is counted, and is followed by
\* the next attempt or by the failure of the cycle.
C20_ValidatedSnapshots ==
    /\ [](data # <<>> =>
            /\ {"node_info", "online_list", "wan_statistic"}
                   \subseteq data[1].keys
            /\ Len(data[1].node_info) >= 1)
    /\ [][InvalidAttempt =>
            /\ ~CycleSucceeds
            /\ UNCHANGED <<data, last_successful_update>>
            /\ consecutive_failures' = consecutive_failures + 1
            /\ \/ cpc' = "attempt" /\ attempt' = attempt + 1
               \/ CycleFails]_vars

\* a cycle with a snapshot in the cache met an invalid result on its first
\* attempt, counted it and is about to retry
C20_Witness ==
    /\ cpc = "attempt" /\ attempt = 1 /\ consecutive_failures = 1
    /\ ~coreValid /\ extFailed # {}
    /\ data # <<>> /\ Len(data[1].node_info) >= 1

(***************************************************************************)
(* Properties of the health probe                                          *)
(***************************************************************************)
\* the step is a health probe
ProbeStep ==
    \E o \in FetchOutcomes(authenticated), h \in BOOLEAN : HealthCheck(o, h)

\* the step issues the core fetch
CoreFetchStep ==
    \/ \E o \in FetchOutcomes(authenticated) : CoreFetchFailed(o)
    \/ \E o \in CoreOk(authenticated), d \in CoreData :
           \E e \in CoarseExtRuns(o.auth) : Fetch(o, d, e)

\* C21: an attempt that starts with the failure counter above 0 probes
\* first and fetches only after the probe succeeded; a failed probe is
\* counted and retried as a connection failure; an attempt that starts with
\* the counter at 0 does not probe.
C21_ProbeBeforeFetch ==
    /\ [][(cpc = "attempt" /\ consecutive_failures > 0
             /\ <<cpc, attempt>>' # <<cpc, attempt>>) => ProbeStep]_vars
    /\ [][(cpc # "core" /\ ~(cpc = "attempt" /\ consecutive_failures = 0))
             => ~CoreFetchStep]_vars
    /\ [][ProbeStep => cpc = "attempt" /\ consecutive_failures > 0]_vars
    /\ [][(ProbeStep /\ cpc' # "core") =>
             /\ consecutive_failures' = consecutive_failures + 1
             /\ IF attempt < max_attempts - 1
                THEN /\ cpc' = "attempt" /\ attempt' = attempt + 1
                     /\ connDelay' =
                            IF router_restart_detected'
                            THEN Min(30, base_retry_delay
                                           * Pow2(Min(attempt, 4)))
                            ELSE base_retry_delay * Pow2(attempt)
                ELSE CycleFails]_vars

\* the probe of a retry succeeded and its core fetch is about to be issued
C21_Witness ==
    cpc = "core" /\ consecutive_failures > 0 /\ attempt >= 1

(***************************************************************************)
(* async_refresh_with_fallback                                             *)
(***************************************************************************)
\* whether `await self.async_refresh()` raises UpdateFailed to its caller:
\* DataUpdateCoordinator.async_refresh takes the UpdateFailed of
\* _async_update_data itself and records it in last_update_success, which
\* is what connection_status reads; it returns normally
AsyncRefreshRaises == FALSE

\* what async_refresh_with_fallback returns when its refresh has ended
async_refresh_with_fallback ==
    IF AsyncRefreshRaises
    THEN /\ data # <<>>
         /\ last_successful_update # NoTime
         /\ (now - last_successful_update) < FallbackWindow
    ELSE TRUE

\* C22 (as stated): async_refresh_with_fallback returns true when the live
\* cycle succeeds; when it fails, true if and only if a snapshot is cached
\* and the last success is less than 300 seconds old.
C22_FallbackRefresh ==
    [][(cpc # "idle" /\ cpc' = "idle") =>
          async_refresh_with_fallback' =
             (\/ last_update_success'
              \/ /\ data' # <<>>
                 /\ last_successful_update' # NoTime
                 /\ (now' - last_successful_update') < 300)]_vars

(***************************************************************************)
(* Properties of the restart flag                                          *)
(***************************************************************************)
\* the step is an attempt that fails with a connection or API failure: a
\* failed probe or a core fetch that raises one
ConnectionFailureStep ==
    \/ ProbeStep /\ cpc' # "core"
    \/ \E o \in FetchOutcomes(authenticated) :
          /\ GetModulesResult(o) \in {"ConnectionError", "APIError"}
          /\ CoreFetchFailed(o)

\* the step is an attempt that fails with an authentication failure or an
\* unexpected one
OtherFailureStep ==
    \/ \E o \in FetchOutcomes(authenticated) :
          /\ GetModulesResult(o) \notin {"ConnectionError", "APIError"}
          /\ CoreFetchFailed(o)
    \/ InvalidAttempt

\* C23: a connection/API failure sets the restart flag, and restarts the
\* count of recovery attempts, if and only if the flag was not set and a
\* cycle succeeded less than 600 seconds earlier; authentication and
\* unexpected failures never set it.
C23_ProactiveFlag ==
    /\ [][ConnectionFailureStep =>
            LET recent == /\ last_successful_update # NoTime
                          /\ now - last_successful_update < 600
            IN /\ (~router_restart_detected /\ router_restart_detected')
                      <=> (~router_restart_detected /\ recent)
               /\ (~router_restart_detected /\ recent) =>
                      restart_recovery_attempts' =
                          IF cpc' = "attempt" THEN 1 ELSE 0]_vars
    /\ [][OtherFailureStep => UNCHANGED router_restart_detected]_vars

\* the first attempt of a cycle in normal mode failed shortly after a
\* success: the flag is set and the retry counted
C23_Witness ==
    /\ cpc = "attempt" /\ attempt = 1 /\ consecutive_failures = 1
    /\ max_attempts = max_retries
    /\ router_restart_detected /\ restart_recovery_attempts = 1
    /\ last_successful_update # NoTime
    /\ now - last_successful_update < 600

\* C24: once set, the restart flag is cleared only at the end of a
\* successful cycle; a cycle that ends in update-failed leaves it set, and
\* the next cycle starts with the extended attempt budget.
C24_FlagSurvivesFailure ==
    /\ [][(router_restart_detected /\ ~router_restart_detected')
             => CycleSucceeds]_vars
    /\ [][(CycleFails /\ router_restart_detected)
             => router_restart_detected']_vars
    /\ [][(cpc = "idle" /\ cpc' # "idle" /\ router_restart_detected)
             => (max_attempts' = 10 /\ attempt' = 0)]_vars

\* a cycle failed in recovery mode and the next one has started with the
\* budget of 10 attempts
C24_Witness ==
    /\ cpc = "attempt" /\ attempt = 0 /\ max_attempts = 10
    /\ ~last_update_success /\ router_restart_detected
    /\ consecutive_failures > 0 /\ restart_recovery_attempts > 0

(***************************************************************************)
(* Properties of invalidate_auth                                           *)
(***************************************************************************)
\* C25 (as stated): a call that starts after invalidate_auth returned does
\* not send its own request before a login request has been sent, whatever
\* the other callers do, also when a login was in flight at the
\* invalidation.
C25_InvalidationForcesLogin ==
    [][\A p \in Callers :
          (pc[p] # "req_wait" /\ pc'[p] = "req_wait")
              => ~(unrefreshed' /\ p \in staleCall')]_vars

(***************************************************************************)
(* Properties of the authentication precondition                           *)
(***************************************************************************)
\* C26: a GET or POST is sent only once ensure_authenticated has returned
\* for that call, the flag set; a call whose login fails ends with the
\* error of the login and sends no request of its own.
C26_AuthenticatedBeforeRequest ==
    /\ [][\A p \in Callers :
             (pc[p] # "req_wait" /\ pc'[p] = "req_wait") => authenticated']_vars
    /\ [][\A p \in Callers :
             (pc[p] = "login_wait" /\ pc'[p] # "login_wait") =>
                 IF loginsOk' > loginsOk
                 THEN authenticated'
                 ELSE /\ pc'[p] = "idle"
                      /\ last'.op = op[p] /\ last'.stage = "login"
                      /\ last'.raw # "ok"
                      /\ op[p] \in {"get_data", "send_command"}
                            => last'.result = last'.raw]_vars

\* a get_data call ended in its login, rejected by the router
C26_Witness ==
    /\ last.op = "get_data" /\ last.stage = "login"
    /\ last.result = "AuthenticationError" /\ ~last.auth

(***************************************************************************)
(* Properties of the order of the calls                                    *)
(***************************************************************************)
\* the calls of the attempt after its health check, if it made one
FetchesIssued ==
    IF requests # <<>> /\ requests[1] = "health_check"
    THEN Tail(requests) ELSE requests

\* C27: a cycle has at most one call in flight; in an attempt the core
\* fetch comes first and the extended modules follow one by one in the
\* order wan_info, lan_info, wifi, guest_info, upnp_info, each once when the
\* core fetch returned and none when it raised; an attempt starts only when
\* the one before and its sleep are over.
C27_SequentialFetches ==
    /\ [](in_flight <= 1)
    /\ [](FetchesIssued =
            SubSeq(<<"core", "wan_info", "lan_info", "wifi", "guest_info",
                     "upnp_info">>, 1, Len(FetchesIssued)))
    /\ [][(cpc \in {"ext_wait", "ext_pause"} /\ cpc' \in {"attempt", "idle"})
             => Len(FetchesIssued') = 6]_vars
    /\ [][(cpc = "core_wait" /\ cpc' \in {"attempt", "idle"})
             => FetchesIssued' = <<"core">>]_vars
    /\ [][(cpc = "attempt" /\ cpc' \in {"probe_wait", "core_wait"})
             => (in_flight = 0 /\ ~sleeping)]_vars
    /\ [](sleeping => in_flight = 0)

\* a retry probed, fetched the core modules and every extended module in
\* turn, one of which failed, and succeeded
C27_Witness ==
    /\ cpc = "idle" /\ last_update_success /\ attempt = 1
    /\ requests = <<"health_check", "core", "wan_info", "lan_info", "wifi",
                    "guest_info", "upnp_info">>
    /\ extFailed = {"lan_info"}
    /\ in_flight = 0

\* the step ends an attempt in one of the except clauses: the next attempt
\* follows, or the cycle fails
AttemptFailed ==
    /\ cpc # "idle"
    /\ \/ attempt' = attempt + 1
       \/ cpc' = "idle" /\ ~last_update_success'

\* C37: the failure counter starts at 0; every failed attempt, whatever its
\* class, adds exactly one to it; a successful attempt sets it to 0; no
\* other step but async_force_restart_recovery, which sets it to 0, changes
\* it, a swallowed failure of an extended module included.  So it is the
\* number of failed attempts since the last success or forced reset.
C37_CounterCountsAttempts ==
    /\ consecutive_failures = 0
    /\ [][/\ AttemptFailed => consecutive_failures' = consecutive_failures + 1
          /\ CycleSucceeds => consecutive_failures' = 0
          /\ (consecutive_failures' # consecutive_failures
                 /\ ~AttemptFailed /\ ~CycleSucceeds)
                => (ForceRestartRecovery /\ consecutive_failures' = 0)
          /\ (extFailed' # extFailed /\ cpc' = "ext_wait")
                => consecutive_failures' = consecutive_failures]_vars

\* after a forced reset and before any success, the first attempt of a
\* cycle failed and the second swallowed the failure of wan_info and goes on
C37_Witness ==
    /\ consecutive_failures = 1 /\ attempt = 1 /\ cpc = "ext_wait"
    /\ extFailed = {"wan_info"}
    /\ router_restart_detected /\ last_successful_update = NoTime

\* C38: the coordinator starts outside restart recovery, and a snapshot is
\* cached exactly when a cycle has succeeded; while no cycle has succeeded,
\* no step but async_force_restart_recovery sets the restart flag or counts
\* a recovery attempt, the first success included, and a cycle started in
\* that time runs with the normal attempt budget.
C38_NoRecoveryBeforeSuccess ==
    /\ ~router_restart_detected /\ restart_recovery_attempts = 0
    /\ []((data = <<>>) <=> (last_successful_update = NoTime))
    /\ [][(/\ last_successful_update = NoTime
           /\ ~router_restart_detected
           /\ restart_recovery_attempts = 0)
             => \/ /\ ~router_restart_detected'
                   /\ restart_recovery_attempts' = 0
                   /\ (cpc = "idle" /\ cpc' # "idle")
                         => max_attempts' = max_retries
                \/ ForceRestartRecovery]_vars

\* before any success, a cycle with the normal budget failed, its retries
\* after connection failures, and the flag is not set
C38_Witness ==
    /\ last_successful_update = NoTime /\ data = <<>>
    /\ cpc = "idle" /\ ~last_update_success
    /\ max_attempts = max_retries /\ attempt = max_retries - 1
    /\ connDelay > 0 /\ consecutive_failures = max_retries
    /\ ~router_restart_detected /\ restart_recovery_attempts = 0

(***************************************************************************)
(* Properties of the lookups                                               *)
(***************************************************************************)
\* the online devices whose address is the one asked for, both normalized
SameAddress ==
    SelectSeq(online_devices,
              LAMBDA device :
                  normalize_mac(device.mac) = normalize_mac(lookup_mac[1]))

\* C28 (as stated): get_device_by_mac(q) returns the online device whose
\* MAC equals q once both are normalized, and returns nothing only when no
\* online device has that address.
C28_LookupNormalized ==
    fetcher_call = "get_device_by_mac" =>
        /\ lookup_result = <<>> <=> SameAddress = <<>>
        /\ lookup_result # <<>> => lookup_result[1] = SameAddress[1]

\* the nodes of the answer, and the place of the first that claims role "1"
FetchedNodes == NodeInfos(nodes_data)

FirstPrimaryAt ==
    IF \E i \in 1..Len(FetchedNodes) : FetchedNodes[i].role = "1"
    THEN CHOOSE i \in 1..Len(FetchedNodes) :
             /\ FetchedNodes[i].role = "1"
             /\ \A j \in 1..(i - 1) : FetchedNodes[j].role # "1"
    ELSE 0

\* C29 (as stated): the primary node is the first node whose role is "1"
\* (none if no node has it) and the secondary nodes are all the other nodes
\* of the list, also when more than one node claims role "1".
C29_SplitCoversNodes ==
    (primary_node # <<>> /\ secondary_nodes # <<>>) =>
        /\ primary_node[1] =
               (IF FirstPrimaryAt = 0 THEN <<>>
                ELSE <<FetchedNodes[FirstPrimaryAt]>>)
        /\ secondary_nodes[1] =
               SubSeq(FetchedNodes, 1, FirstPrimaryAt - 1)
                   \o SubSeq(FetchedNodes, FirstPrimaryAt + 1,
                             Len(FetchedNodes))

\* C30: the result of get_all_data has exactly the keys of the raw answer,
\* and under every key other than node_info, online_list and wan_statistic
\* the raw value.
C30_PassThrough ==
    all_data # <<>> =>
        /\ KeysOf(all_data[1]) = KeysOf(raw_modules)
        /\ \A k \in AnswerKeys \ {"node_info", "online_list",
                                  "wan_statistic"} :
               all_data[1][k] = raw_modules[k]

\* an answer with a transformed module, a module that is passed through
\* and a module it lacks went through get_all_data
C30_Witness ==
    /\ all_data # <<>>
    /\ raw_modules.node_info # <<>> /\ raw_modules.node_info[1] # <<>>
    /\ raw_modules.lan_info # <<>>
    /\ raw_modules.getversion = <<>>
    /\ all_data[1].lan_info = <<"10.0.0.1">>

(***************************************************************************)
(* Properties of the schema                                                *)
(***************************************************************************)
\* C31 (as stated): when the three core modules are present and well-formed,
\* the validation of the merged result succeeds whatever value a fetched
\* extended module carries.
C31_ExtendedContentIgnored ==
    (schema_result # "none" /\ MainSchemaValid(schema_input[1].core))
        => schema_result = "valid"

(***************************************************************************)
(* Properties of the payload classification                                *)
(***************************************************************************)
\* the body begins, in any case, with a doctype or an html tag
BeginsAsHtml(raw) ==
    \/ StartsWith(Lower(Strip(raw)), "<!doctype html")
    \/ StartsWith(Lower(Strip(raw)), "<html")

\* the body is empty, or is neither JSON nor an HTML document
Malformed(r) ==
    /\ r.kind = "body"
    /\ \/ Strip(r.body) = <<>>
       \/ JsonLoads(r.body) = "error" /\ ~BeginsAsHtml(r.body)

\* C32 (as stated): a get_data response whose body is empty, or is neither
\* valid JSON nor an HTML document, raises APIError and leaves the
\* authenticated flag unchanged.
C32_MalformedIsApiError ==
    [][\A p \in Callers, r \in Responses :
          (pc[p] = "req_wait" /\ op[p] = "get_data" /\ Malformed(r)
             /\ Response(p, r))
              => (last'.raw = "APIError" /\ authenticated' = authenticated)]_vars

(***************************************************************************)
(* Properties of the attempt loop                                          *)
(***************************************************************************)
\* C33 (as stated): a cycle makes at most max_attempts attempts and ends by
\* returning a validated snapshot or by raising update-failed from the
\* except clause of its last attempt; the raise after the loop is never
\* reached, for every max_retries >= 1 in normal and in recovery mode.
C33_LoopDecides ==
    /\ cpc = "attempt" => attempt < max_attempts
    /\ exit_path # "fallthrough"
    /\ (cpc = "idle" /\ exit_path = "return") =>
           (last_update_success /\ data # <<>> /\ MainSchemaValid(data[1]))
    /\ (cpc = "idle" /\ exit_path = "raise") => ~last_update_success

(***************************************************************************)
(* Properties of the cached data                                           *)
(***************************************************************************)
\* a property that looks at the cache alone
has_recent_dataAnyAge == data # <<>>

\* the has_recent_data property
has_recent_data ==
    /\ data # <<>>
    /\ last_successful_update # NoTime
    /\ (now - last_successful_update) < RecentDataWindow

\* the test of async_refresh_with_fallback for serving the cache
CacheServed ==
    /\ data # <<>>
    /\ last_successful_update # NoTime
    /\ (now - last_successful_update) < FallbackWindow

\* C34 (as stated): has_recent_data is true only if a snapshot is cached and
\* the last success is less than 5 minutes old, so it is never true where
\* the fallback refresh would refuse the cache.
C34_RecentWithinFallbackWindow ==
    has_recent_data =>
        /\ data # <<>>
        /\ last_successful_update # NoTime
        /\ (now - last_successful_update) < 300
        /\ CacheServed

\* C34 (amended): has_recent_data is true right after every successful
\* cycle and wherever the fallback refresh would serve the cache, and only
\* with a cached snapshot whose success is less than 10 minutes old; between
\* 5 and 10 minutes it is true although the fallback refuses the cache.
C34_RecentWithinTenMinutes ==
    /\ [][CycleSucceeds => has_recent_data']_vars
    /\ [](CacheServed => has_recent_data)
    /\ [](has_recent_data =>
            /\ data # <<>>
            /\ last_successful_update # NoTime
            /\ (now - last_successful_update) < 600)
    /\ []((data # <<>> /\ last_successful_update # NoTime
             /\ (now - last_successful_update) = 300) => has_recent_data)

\* a cycle failed 5 minutes after the last success: the data counts as
\* recent and the fallback refuses it
C34_Witness ==
    /\ cpc = "idle" /\ ~last_update_success /\ exit_path = "raise"
    /\ now - last_successful_update = 300
    /\ has_recent_data /\ ~CacheServed

(***************************************************************************)
(* Properties of the authenticated flag                                    *)
(***************************************************************************)
\* C35: the flag goes from false to true only in the step that takes the
\* answer to a login, a JSON object whose errcode is not "1", from the holder
\* of the gate; get_data, send_command and invalidate_auth only lower it;
\* no login is started while the flag is true.
C35_FlagRaisedByLoginOnly ==
    /\ [][/\ (~authenticated /\ authenticated') =>
                /\ \E p \in Callers :
                       /\ pc[p] = "login_wait" /\ lockOwner = p
                       /\ loginsOk' = loginsOk + 1
                       /\ \E r \in Responses :
                              /\ r.kind = "body" /\ JsonLoads(r.body) = "dict"
                              /\ LoginResponse(p, r)
                /\ \A p \in Callers :
                       ~(pc[p] = "req_wait" /\ pc'[p] # "req_wait")
                /\ ~InvalidateAuth
          /\ loginsSent' # loginsSent =>
                (~authenticated /\ loginsSent' = loginsSent + 1)]_vars
    /\ [](\A p \in Callers : pc[p] = "login_wait" => lockOwner = p)

\* a login was rejected, the next one was accepted, the flag was lowered
\* and a third login raised it again
C35_Witness ==
    /\ authenticated
    /\ loginsOk = 2 /\ loginsFailed = 1
    /\ lockOwner = 0

(***************************************************************************)
(* Properties of the gate                                                  *)
(***************************************************************************)
\* C36: the step that ends a login, by an answer of any kind or by the
\* cancellation of the caller, releases the gate; the gate is held only by
\* a caller whose login is in flight; every caller that waits for the gate
\* gets out of ensure_authenticated and its call ends.
C36_GateReleased ==
    /\ [][\A p \in Callers :
             (pc[p] = "login_wait" /\ pc'[p] # "login_wait")
                 => lockOwner' = 0]_vars
    /\ [](lockOwner # 0 => pc[lockOwner] = "login_wait")
    /\ \A p \in Callers : (pc[p] = "lock_wait") ~> (pc[p] = "idle")

\* the login of one caller was cancelled and another caller holds the gate
\* for its own login
C36_Witness ==
    /\ last.stage = "login" /\ last.resp = "cancelled"
    /\ lockOwner # 0 /\ pc[lockOwner] = "login_wait"
    /\ loginsSent = 2

====
